---- MODULE Spec2Model ----
(***************************************************************************)
(* A model of the ora driver core (BassOfLion/ora): the statement binder   *)
(* and executor (src/stmt.go), the row materializer (rows, same file), the *)
(* connection's cancellable calls (conn, same file) and the LOB stream     *)
(* adapters (src/unnamed/part_000).                                        *)
(*                                                                         *)
(* The native client library (ODPI-C) is outside the repository: each of   *)
(* its calls is an input of the action that issues it (success or failure, *)
(* and the values it writes through out-parameters).                       *)
(***************************************************************************)
EXTENDS Integers, Sequences, FiniteSets, TLC

(***************************************************************************)
(* Bounds of the model.                                                    *)
(***************************************************************************)
MaxCalls == 2
NumProcs == 2
MaxCursorsM == 1
MaxLobs == 1
MaxLobLen == 2
MaxReadBuf == 2
MaxArgs == 2
MaxSmallLen == 2
MaxNVars == 3
MaxCursors == 1
MaxCols == 1
MaxCloses == 2
MaxReleases == 2
MaxOpenRows == 2

VARIABLES
    calls,      \* cancellable calls made so far on one connection, in order
    mu,         \* statement.Mutex: 0 when free, else the goroutine holding it
    ppc,        \* per goroutine: position inside its statement operation
    pop,        \* per goroutine: the operation it is running
    mcursors,   \* cursors returned by QueryContext in the mutex model
    lob,        \* the native LOB locator in use (native side)
    lobCount,   \* locators created so far
    lw,         \* the dpiLobWriter
    src,        \* the bytes the caller streams into the writer
    chunk,      \* size of the pieces the caller writes
    fed,        \* bytes of src accepted by Write so far
    lr,         \* the dpiLobReader
    out,        \* the bytes the reader's caller has received so far
    lobLog,     \* observations of the last LOB operation and history flags
    st,         \* the statement
    nvars,      \* native variables allocated so far (native side)
    nstmt,      \* reference counting calls on the native statement handle
    cursors,    \* the cursors (rows) QueryContext built, in order
    stLog       \* observations of the last statement or cursor operation

cancelVars == <<calls>>
mutexVars == <<mu, ppc, pop, mcursors>>
lobVars == <<lob, lobCount, lw, src, chunk, fed, lr, out, lobLog>>
stmtVars == <<st, nvars, nstmt, cursors, stLog>>
allVars == <<calls, mu, ppc, pop, mcursors, lob, lobCount, lw, src, chunk, fed, lr, out, lobLog,
             st, nvars, nstmt, cursors, stLog>>

(***************************************************************************)
(* Part 1. The cancellation watcher of ExecContext, QueryContext and Ping. *)
(*                                                                         *)
(* A call is a record:                                                     *)
(*   op        "Exec" | "Query" | "Ping"                                   *)
(*   cpc       caller: "native" (inside the blocking native call),         *)
(*             "returned" (native call returned, done not yet sent),       *)
(*             "done" (completion sent, or returned early)                 *)
(*   wpc       watcher goroutine: "none" (never spawned), "select",        *)
(*             "breaking" (took the <-ctx.Done() branch, Break not yet     *)
(*             issued), "exit"                                             *)
(*   ctxDone   the caller's context is cancelled                           *)
(*   done      messages in the buffered channel done (capacity 1)          *)
(*   breaks    native break requests issued by this call's watcher         *)
(*   lateBreak a break was requested after the native call had returned    *)
(*   nativeOk  the native call did not return DPI_FAILURE                  *)
(*   ret       what the call returned: "pending", "ctxErr", "nil", "err"   *)
(***************************************************************************)
CancelOps == {"Exec", "Query", "Ping"}

DoneCap == 1

NewCall(o, cancelled) ==
    IF cancelled
    THEN [op |-> o, cpc |-> "done", wpc |-> "none", ctxDone |-> TRUE, done |-> 0,
          breaks |-> 0, lateBreak |-> FALSE, nativeOk |-> TRUE, ret |-> "ctxErr"]
    ELSE [op |-> o, cpc |-> "native", wpc |-> "select", ctxDone |-> FALSE, done |-> 0,
          breaks |-> 0, lateBreak |-> FALSE, nativeOk |-> TRUE, ret |-> "pending"]

\* Ping: ok := C.dpiConn_ping(c.dpiConn) == C.DPI_FAILURE; if !ok { return c.getError() }
PingResult(nativeOk) ==
    LET ok == ~nativeOk
    IN  IF ~ok THEN "err" ELSE "nil"

\* ExecContext / QueryContext: if res == C.DPI_FAILURE { return nil, errors.Wrapf(...) }
ExecResult(nativeOk) == IF ~nativeOk THEN "err" ELSE "nil"

\* QueryContext: after a successful execute, return st.openRows(int(colCount)),
\* whose error is not nil when getQueryInfo, newVar, define or addRef fails.
QueryResult(nativeOk, rowsOk) ==
    IF ~nativeOk THEN "err" ELSE IF ~rowsOk THEN "err" ELSE "nil"

\* rowsOk tells whether openRows succeeds; only QueryContext calls it.
CallResult(o, nativeOk, rowsOk) ==
    CASE o = "Ping" -> PingResult(nativeOk)
      [] o = "Query" -> QueryResult(nativeOk, rowsOk)
      [] OTHER -> ExecResult(nativeOk)

CallerIdle == IF calls = <<>> THEN TRUE ELSE calls[Len(calls)].cpc = "done"

\* ctx.Err() check, then done := make(chan struct{}, 1); go func() {...}(); the
\* caller enters the blocking native call.
BeginCall(o, cancelled) ==
    /\ CallerIdle
    /\ Len(calls) < MaxCalls
    /\ calls' = Append(calls, NewCall(o, cancelled))
    /\ UNCHANGED <<mutexVars, lobVars, stmtVars>>

\* The blocking native call (dpiStmt_execute, dpiStmt_executeMany, dpiConn_ping) returns.
NativeReturn(c, ok) ==
    /\ calls[c].cpc = "native"
    /\ calls' = [calls EXCEPT ![c].cpc = "returned", ![c].nativeOk = ok]
    /\ UNCHANGED <<mutexVars, lobVars, stmtVars>>

\* done <- struct{}{} and the return that follows it; rowsOk is the outcome of
\* openRows, which QueryContext calls after the send.
SendDone(c, rowsOk) ==
    /\ calls[c].cpc = "returned"
    /\ calls[c].done < DoneCap
    /\ calls' = [calls EXCEPT ![c].cpc = "done",
                              ![c].done = @ + 1,
                              ![c].ret = CallResult(calls[c].op, calls[c].nativeOk, rowsOk)]
    /\ UNCHANGED <<mutexVars, lobVars, stmtVars>>

\* The caller's context is cancelled (at any moment, also after the call).
CancelCtx(c) ==
    /\ ~calls[c].ctxDone
    /\ calls' = [calls EXCEPT ![c].ctxDone = TRUE]
    /\ UNCHANGED <<mutexVars, lobVars, stmtVars>>

\* select: case <-ctx.Done() is ready and chosen.
WatcherSelectCancelReady(w) == w.wpc = "select" /\ w.ctxDone

WatcherSelectCancel(c) ==
    /\ WatcherSelectCancelReady(calls[c])
    /\ calls' = [calls EXCEPT ![c].wpc = "breaking"]
    /\ UNCHANGED <<mutexVars, lobVars, stmtVars>>

\* A watcher that stays in the cancellation branch and requests the break again.
WatcherBreak_Stay(c) ==
    /\ calls[c].wpc = "breaking"
    /\ calls[c].breaks < 2
    /\ calls' = [calls EXCEPT ![c].breaks = @ + 1,
                              ![c].lateBreak = calls[c].cpc \in {"returned", "done"}]
    /\ UNCHANGED <<mutexVars, lobVars, stmtVars>>

\* _ = st.Break() / c.Break(): C.dpiConn_breakExecution on the connection.
WatcherBreak(c) ==
    /\ calls[c].wpc = "breaking"
    /\ calls' = [calls EXCEPT ![c].wpc = "exit",
                              ![c].breaks = @ + 1,
                              ![c].lateBreak = calls[c].cpc \in {"returned", "done"}]
    /\ UNCHANGED <<mutexVars, lobVars, stmtVars>>

\* select: case <-done is ready and chosen.
WatcherSelectDone(c) ==
    /\ calls[c].wpc = "select"
    /\ calls[c].done > 0
    /\ calls' = [calls EXCEPT ![c].wpc = "exit", ![c].done = @ - 1]
    /\ UNCHANGED <<mutexVars, lobVars, stmtVars>>

InitCancel == calls = <<>>

NextCancel ==
    \/ \E o \in CancelOps, cancelled \in BOOLEAN : BeginCall(o, cancelled)
    \/ \E c \in DOMAIN calls, ok \in BOOLEAN : NativeReturn(c, ok)
    \/ \E c \in DOMAIN calls, rowsOk \in BOOLEAN : SendDone(c, rowsOk)
    \/ \E c \in DOMAIN calls : CancelCtx(c)
    \/ \E c \in DOMAIN calls : WatcherSelectCancel(c)
    \/ \E c \in DOMAIN calls : WatcherBreak(c)
    \/ \E c \in DOMAIN calls : WatcherSelectDone(c)

(***************************************************************************)
(* Part 2. The statement mutex: which operations take st.Lock().           *)
(***************************************************************************)
Procs == 1..NumProcs

MutexOps == {"Exec", "Query", "Close", "Next"}

\* ExecContext, QueryContext and statement.Close start with st.Lock(); defer st.Unlock().
\* rows.Next has no Lock call.
TakesLock(o) == o \in {"Exec", "Query", "Close"}

\* The goroutines that are using the statement's native handle or its buffers.
Accessing == {p \in Procs : ppc[p] = "access"}

\* A goroutine calls an operation: a locking one goes to st.Lock(), rows.Next goes
\* straight to the native fetch on r.dpiStmt.
Invoke(p, o) ==
    /\ ppc[p] = "idle"
    /\ o = "Next" => mcursors > 0
    /\ ppc' = [ppc EXCEPT ![p] = IF TakesLock(o) THEN "lock" ELSE "access"]
    /\ pop' = [pop EXCEPT ![p] = o]
    /\ UNCHANGED <<mu, mcursors>>
    /\ UNCHANGED <<cancelVars, lobVars, stmtVars>>

\* st.Lock() returns.
Acquire(p) ==
    /\ ppc[p] = "lock"
    /\ mu = 0
    /\ mu' = p
    /\ ppc' = [ppc EXCEPT ![p] = "access"]
    /\ UNCHANGED <<pop, mcursors>>
    /\ UNCHANGED <<cancelVars, lobVars, stmtVars>>

\* The operation returns; the deferred st.Unlock() runs for the locking ones.
Finish(p) ==
    /\ ppc[p] = "access"
    /\ ppc' = [ppc EXCEPT ![p] = "idle"]
    /\ mu' = IF TakesLock(pop[p]) THEN 0 ELSE mu
    /\ mcursors' = IF pop[p] = "Query" /\ mcursors < MaxCursorsM THEN mcursors + 1 ELSE mcursors
    /\ UNCHANGED pop
    /\ UNCHANGED <<cancelVars, lobVars, stmtVars>>

InitMutex ==
    /\ mu = 0
    /\ ppc = [p \in Procs |-> "idle"]
    /\ pop = [p \in Procs |-> "Exec"]
    /\ mcursors = 0

NextMutex ==
    \/ \E p \in Procs, o \in MutexOps : Invoke(p, o)
    \/ \E p \in Procs : Acquire(p)
    \/ \E p \in Procs : Finish(p)

(***************************************************************************)
(* Part 3. The LOB stream adapters (dpiLobWriter, dpiLobReader) and the    *)
(* LOB setter of the binder (conn.dataSetLOB).                             *)
(*                                                                         *)
(* Bytes are 1 and 2; 0 stands for a byte of the caller's buffer that no   *)
(* native call has written.                                                *)
(*                                                                         *)
(* The locator (native side) is a record:                                  *)
(*   exists    a locator was created (dpiConn_newTempLob succeeded)        *)
(*   content   the LOB's bytes                                             *)
(*   resOpen   the resource is open (openResource succeeded, not closed)   *)
(*   opens     successful dpiLob_openResource calls                        *)
(*   closes    dpiLob_closeResource calls issued on the locator            *)
(*   flushes   dpiLob_flushBuffer calls issued on the locator              *)
(*   attached  dpiVar_setFromLob stored the locator in a slot              *)
(***************************************************************************)
Bytes == {1, 2}

Garbage == 0

\* chunkSize = 1 << 20 when the native layer reports none
DefaultChunkSize == 1048576

Min(a, b) == IF a < b THEN a ELSE b

SeqsUpTo(S, n) == UNION {[1..k -> S] : k \in 0..n}

Contents == SeqsUpTo(Bytes, MaxLobLen)

NoLob ==
    [exists |-> FALSE, content |-> <<>>, resOpen |-> FALSE, opens |-> 0, closes |-> 0,
     flushes |-> 0, attached |-> FALSE]

NewTempLob == [NoLob EXCEPT !.exists = TRUE]

\* A locator pointer: 0 is nil, 1 is the locator.
NilLob == 0

TheLob == 1

\* dpiLob_openResource(lob)
NatOpenResource(l, h, ok) ==
    IF h = NilLob \/ ~ok THEN l
    ELSE [l EXCEPT !.resOpen = TRUE, !.opens = @ + 1]

\* The LOB's content after writing data at the 1-based position pos.
Overwrite(c, pos, d) ==
    LET total == IF pos - 1 + Len(d) > Len(c) THEN pos - 1 + Len(d) ELSE Len(c)
    IN  [i \in 1..total |->
            IF i >= pos /\ i < pos + Len(d) THEN d[i - pos + 1]
            ELSE IF i <= Len(c) THEN c[i] ELSE Garbage]

\* dpiLob_writeBytes(lob, pos, data, n): res is "ok", "short" (the native layer
\* accepted only a part and reported success) or "fail".
NatWriteBytes(l, h, pos, d, res) ==
    IF h = NilLob THEN l
    ELSE IF res = "ok" THEN [l EXCEPT !.content = Overwrite(l.content, pos, d)]
    ELSE IF res = "short"
         THEN [l EXCEPT !.content = Overwrite(l.content, pos, SubSeq(d, 1, Len(d) - 1))]
    ELSE l

\* dpiLob_closeResource(lob)
NatCloseResource(l, h, ok) ==
    IF h = NilLob THEN l
    ELSE [l EXCEPT !.closes = @ + 1, !.resOpen = IF ok THEN FALSE ELSE @]

\* dpiLob_flushBuffer(lob)
NatFlushBuffer(l, h) ==
    IF h = NilLob THEN l ELSE [l EXCEPT !.flushes = @ + 1]

\* dpiLob_getSize(lob, &size): size stays 0 when the call fails.
NatGetSize(l, h, ok) == IF h = NilLob \/ ~ok THEN 0 ELSE Len(l.content)

\* The bytes dpiLob_readBytes(lob, pos, n, ...) delivers.
NatReadBytes(l, pos, n) ==
    IF pos < 1 \/ pos > Len(l.content) THEN <<>>
    ELSE SubSeq(l.content, pos, Min(pos + n - 1, Len(l.content)))

\* The native outcomes of one Write: open (openResource succeeds), write
\* ("ok" | "short" | "fail"), size (getSize succeeds).
WriteNats == [open : BOOLEAN, write : {"ok", "short", "fail"}, size : BOOLEAN]

NatAllOk == [open |-> TRUE, write |-> "ok", size |-> TRUE]

NewWriter(h) == [dpiLob |-> h, offset |-> 0, opened |-> FALSE]

\* dlw.dpiLob = nil on a failed dpiLob_writeBytes
AfterWriteFailure(w) == [w EXCEPT !.dpiLob = NilLob]

\* dpiLobWriter.Write(p): the writer, the locator, n and err after the call, and
\* whether a native call returned DPI_FAILURE or wrote short (natFail).
WriterWrite(w, l, p, nat) ==
    LET h == w.dpiLob
        openFails == ~w.opened /\ (h = NilLob \/ ~nat.open)
        l1 == IF ~w.opened THEN NatOpenResource(l, h, nat.open) ELSE l
        w1 == [w EXCEPT !.opened = TRUE]
        n == Len(p)
        writeFails == h = NilLob \/ nat.write = "fail"
        l2 == NatWriteBytes(l1, h, w1.offset + 1, p, nat.write)
        w2 == [w1 EXCEPT !.offset = @ + n]
        size == NatGetSize(l2, h, nat.size)
    IN  IF openFails
        THEN [lob |-> l1, w |-> w, n |-> 0, err |-> "openResource", natFail |-> TRUE]
        ELSE IF n = 0
        THEN [lob |-> l1, w |-> w1, n |-> 0, err |-> "panic", natFail |-> FALSE]
        ELSE IF writeFails
        THEN [lob |-> NatCloseResource(l2, h, TRUE),
              w |-> AfterWriteFailure(w1),
              n |-> 0, err |-> "writeBytes", natFail |-> TRUE]
        ELSE IF size # w2.offset
        THEN [lob |-> l2, w |-> w2, n |-> n, err |-> "size", natFail |-> TRUE]
        ELSE [lob |-> l2, w |-> w2, n |-> n, err |-> "nil", natFail |-> FALSE]

\* dpiLobWriter.Close()
WriterClose(w, l, flushOk, closeOk) ==
    IF w.dpiLob = NilLob
    THEN [lob |-> l, w |-> w, err |-> "nil", natFail |-> FALSE, native |-> FALSE]
    ELSE LET h == w.dpiLob
             l1 == NatFlushBuffer(l, h)
             l2 == NatCloseResource(l1, h, closeOk)
         IN  [lob |-> l2, w |-> [w EXCEPT !.dpiLob = NilLob],
              err |-> IF closeOk THEN "nil" ELSE "closeResource",
              natFail |-> ~flushOk \/ ~closeOk, native |-> TRUE]

\* &dpiLobReader{dpiLob: h}: the reader rows.Next builds; its conn is nil.
NewReader(h) == [dpiLob |-> h, offset |-> 0, finished |-> FALSE]

\* The native outcomes of one Read: res is "ok", "nodata" (DPI_FAILURE with code
\* 1403) or "fail" (DPI_FAILURE with another code); nset tells whether a failing
\* call stored the byte count (0) through &n or left n as passed in (len(p));
\* errInfo tells what dlr.getError() does on the reader's nil conn after a failing
\* call: "ok" (it returns the error) or "panic" (it dereferences the nil pointer).
ReadNats == [res : {"ok", "nodata", "fail"}, nset : BOOLEAN, errInfo : {"ok", "panic"}]

\* The native layer reports "no data found" only at the end of the content, and
\* getError is only called after a failing call; when it panics the count the
\* native call stored is never looked at.
ReadNatPossible(r, l, nat) ==
    /\ nat.res = "nodata" => r.offset >= Len(l.content)
    /\ nat.res = "ok" => (nat.nset /\ nat.errInfo = "ok")
    /\ nat.errInfo = "panic" => ~nat.nset

\* dpiLobReader.Read(p), len(p) = plen: the reader, n, err, the n bytes p[:n] the
\* caller sees, and whether dpiLob_readBytes was called.
ReaderRead(r, l, plen, nat) ==
    IF r.finished
    THEN [n |-> 0, err |-> "EOF", native |-> FALSE, r |-> r, data |-> <<>>]
    ELSE IF plen = 0
    THEN [n |-> 0, err |-> "nil", native |-> FALSE, r |-> r, data |-> <<>>]
    ELSE LET got == IF nat.res = "ok" THEN NatReadBytes(l, r.offset + 1, plen) ELSE <<>>
             n == IF nat.res = "ok" THEN Len(got)
                  ELSE IF nat.nset THEN 0 ELSE plen
             seen == [i \in 1..n |-> IF i <= Len(got) THEN got[i] ELSE Garbage]
         IN  IF nat.res # "ok" /\ nat.errInfo = "panic"
             THEN [n |-> 0, err |-> "panic", native |-> TRUE, r |-> r, data |-> <<>>]
             ELSE IF nat.res = "nodata"
             THEN [n |-> n, err |-> "EOF", native |-> TRUE,
                   r |-> [r EXCEPT !.finished = TRUE, !.offset = @ + n], data |-> seen]
             ELSE IF nat.res = "fail"
             THEN [n |-> n, err |-> "readBytes", native |-> TRUE, r |-> r, data |-> seen]
             ELSE [n |-> n,
                   err |-> IF n = 0 THEN "EOF" ELSE "nil", native |-> TRUE,
                   r |-> [r EXCEPT !.offset = @ + n], data |-> seen]

\* The native outcomes of one dataSetLOB call: newLob (dpiConn_newTempLob
\* succeeds), chunk (the size dpiLob_getChunkSize stores, 0 when it stores none),
\* failAt and kind (the Write call, counted from 1, that meets an open failure, a
\* write failure, a short write or a size query failure; 0 for none), flushOk,
\* closeOk, setOk (dpiVar_setFromLob succeeds; dataSetLOB discards its result).
\* When dpiConn_newTempLob fails none of the other calls is made.
LobPlans ==
    {plan \in [chunk : {0, 1, 2}, flushOk : BOOLEAN, closeOk : BOOLEAN,
               newLob : BOOLEAN, setOk : BOOLEAN,
               failAt : 0..2, kind : {"open", "write", "short", "size"}] :
        /\ plan.failAt = 0 => plan.kind = "open"
        /\ ~plan.newLob => /\ plan.chunk = 0 /\ plan.failAt = 0
                           /\ plan.flushOk /\ plan.closeOk /\ plan.setOk}

PlanNat(plan, k) ==
    IF plan.failAt # k THEN NatAllOk
    ELSE [open |-> plan.kind # "open",
          write |-> IF plan.kind = "write" THEN "fail"
                    ELSE IF plan.kind = "short" THEN "short" ELSE "ok",
          size |-> plan.kind # "size"]

\* if chunkSize == 0 { chunkSize = 1 << 20 }
ChunkSize(reported) == IF reported = 0 THEN DefaultChunkSize ELSE reported

\* io.CopyBuffer(lw, L, buf): reads pieces of at most len(buf) bytes from the
\* source and hands each to Write; stops at the first error or short write.
RECURSIVE CopyBuffer(_, _, _, _, _, _)
CopyBuffer(w, l, rest, bufLen, plan, k) ==
    IF rest = <<>> THEN [lob |-> l, w |-> w, err |-> "nil", written |-> 0]
    ELSE LET nr == Min(bufLen, Len(rest))
             res == WriterWrite(w, l, SubSeq(rest, 1, nr), PlanNat(plan, k))
         IN  IF res.err # "nil"
             THEN [lob |-> res.lob, w |-> res.w, err |-> res.err, written |-> res.n]
             ELSE LET more == CopyBuffer(res.w, res.lob, SubSeq(rest, nr + 1, Len(rest)),
                                         bufLen, plan, k + 1)
                  IN  [more EXCEPT !.written = @ + res.n]

\* A Lob value to bind: Reader is NoReader (nil) or the bytes the reader yields.
NoReader == <<Garbage>>

LobValues == {NoReader} \cup Contents

\* conn.dataSetLOB(dv, pos, data, v): the locator, the writer it used, the error
\* returned, whether the slot was marked null and whether a locator was created.
\* dpiVar_setFromLob is called after the copy whatever the copy returned, and its
\* result is not looked at: the locator is in the slot only when it succeeded.
DataSetLOBResult(v, plan) ==
    IF v = NoReader
    THEN [lob |-> NoLob, w |-> NewWriter(NilLob), err |-> "nil", isNull |-> TRUE,
          created |-> FALSE]
    ELSE IF ~plan.newLob
    THEN [lob |-> NoLob, w |-> NewWriter(NilLob), err |-> "newTempLob", isNull |-> FALSE,
          created |-> FALSE]
    ELSE LET cp == CopyBuffer(NewWriter(TheLob), NewTempLob, v, ChunkSize(plan.chunk), plan, 1)
             cl == WriterClose(cp.w, cp.lob, plan.flushOk, plan.closeOk)
             err == IF cl.err # "nil" /\ cp.err = "nil" THEN cl.err ELSE cp.err
         IN  [lob |-> [cl.lob EXCEPT !.attached = plan.setOk], w |-> cl.w, err |-> err,
              isNull |-> FALSE, created |-> TRUE]

(***************************************************************************)
(* lobLog holds what the last LOB operation returned and the history the   *)
(* claims speak of:                                                        *)
(*   op        the last operation                                          *)
(*   err, n    what it returned                                            *)
(*   native    it issued a native call on the locator                      *)
(*   plen      the buffer length of the last Read                          *)
(*   eofBefore a Read before the last one had returned io.EOF              *)
(*   eofSeen   a Read has returned io.EOF                                  *)
(*   natFail   a native call of the writer failed or wrote short           *)
(*   readFail  a Read returned an error other than io.EOF, or panicked     *)
(*   wErr      a Write or Close of the writer returned an error            *)
(*   wClosed   Close of the writer was called                              *)
(*   created   the last dataSetLOB created a locator                       *)
(*   isNull    the last dataSetLOB marked the slot null                    *)
(***************************************************************************)
NoLog ==
    [op |-> "none", n |-> 0, err |-> "nil", natFail |-> FALSE, native |-> FALSE,
     plen |-> 0, isNull |-> FALSE, created |-> FALSE, eofBefore |-> FALSE,
     eofSeen |-> FALSE, readFail |-> FALSE, wErr |-> FALSE, wClosed |-> FALSE]

\* The binder sets a LOB value into a slot. A call works on a locator and a writer
\* of its own and reads nothing an earlier LOB operation left behind.
DataSetLOB(v, plan) ==
    /\ lobCount < MaxLobs
    /\ lobLog.op = "none"
    /\ LET res == DataSetLOBResult(v, plan)
       IN  /\ lob' = res.lob
           /\ lw' = res.w
           /\ lobCount' = IF res.created THEN lobCount + 1 ELSE lobCount
           /\ lobLog' = [NoLog EXCEPT !.op = "dataSetLOB", !.err = res.err,
                                      !.created = res.created, !.isNull = res.isNull]
    /\ src' = IF v = NoReader THEN <<>> ELSE v
    /\ chunk' = ChunkSize(plan.chunk)
    /\ fed' = 0
    /\ lr' = NewReader(NilLob)
    /\ out' = <<>>
    /\ UNCHANGED <<cancelVars, mutexVars, stmtVars>>

\* A caller creates a temporary locator and a writer over it, to stream s in
\* pieces of c bytes (the first stream, or the next one once the last was read
\* to its end).
StartWrite(s, c) ==
    /\ lobCount < MaxLobs
    /\ lobLog.op = "none" \/ lobLog.eofSeen
    /\ lob' = NewTempLob
    /\ lobCount' = lobCount + 1
    /\ lw' = NewWriter(TheLob)
    /\ src' = s
    /\ chunk' = c
    /\ fed' = 0
    /\ lr' = NewReader(NilLob)
    /\ out' = <<>>
    /\ lobLog' = [NoLog EXCEPT !.op = "startWrite"]
    /\ UNCHANGED <<cancelVars, mutexVars, stmtVars>>

\* The caller writes the next piece of src.
LobWrite(nat) ==
    /\ lob.exists
    /\ lobLog.op \in {"startWrite", "write", "wclose"}
    /\ fed < Len(src)
    /\ LET p == SubSeq(src, fed + 1, Min(fed + chunk, Len(src)))
           res == WriterWrite(lw, lob, p, nat)
       IN  /\ lw' = res.w
           /\ lob' = res.lob
           /\ fed' = fed + res.n
           /\ lobLog' = [lobLog EXCEPT !.op = "write", !.err = res.err, !.n = res.n,
                                       !.natFail = @ \/ res.natFail,
                                       !.wErr = @ \/ res.err # "nil"]
    /\ UNCHANGED <<lobCount, src, chunk, lr, out>>
    /\ UNCHANGED <<cancelVars, mutexVars, stmtVars>>

\* The caller closes the writer.
LobClose(flushOk, closeOk) ==
    /\ lob.exists
    /\ lobLog.op \in {"startWrite", "write", "wclose"}
    /\ LET res == WriterClose(lw, lob, flushOk, closeOk)
       IN  /\ lw' = res.w
           /\ lob' = res.lob
           /\ lobLog' = [lobLog EXCEPT !.op = "wclose", !.err = res.err, !.n = 0,
                                       !.native = res.native,
                                       !.natFail = @ \/ res.natFail,
                                       !.wErr = @ \/ res.err # "nil",
                                       !.wClosed = TRUE]
    /\ UNCHANGED <<lobCount, src, chunk, fed, lr, out>>
    /\ UNCHANGED <<cancelVars, mutexVars, stmtVars>>

\* A caller creates a reader over the locator, once nothing writes to it any more.
StartRead ==
    /\ lob.exists
    /\ lobLog.op \in {"wclose", "dataSetLOB"}
    /\ lr' = NewReader(TheLob)
    /\ out' = <<>>
    /\ lobLog' = [lobLog EXCEPT !.op = "startRead", !.err = "nil", !.n = 0,
                                !.native = FALSE, !.eofSeen = FALSE, !.eofBefore = FALSE,
                                !.readFail = FALSE]
    /\ UNCHANGED <<lob, lobCount, lw, src, chunk, fed>>
    /\ UNCHANGED <<cancelVars, mutexVars, stmtVars>>

\* The caller reads into a buffer of plen bytes; it reads on after io.EOF, and
\* gives up after another error or a panic.
LobRead(plen, nat) ==
    /\ lobLog.op \in {"startRead", "read"}
    /\ ~lobLog.readFail
    /\ ReadNatPossible(lr, lob, nat)
    /\ LET res == ReaderRead(lr, lob, plen, nat)
       IN  /\ lr' = res.r
           /\ out' = out \o res.data
           /\ lobLog' = [lobLog EXCEPT !.op = "read", !.err = res.err, !.n = res.n,
                                       !.native = res.native, !.plen = plen,
                                       !.eofBefore = lobLog.eofSeen,
                                       !.eofSeen = @ \/ res.err = "EOF",
                                       !.readFail = @ \/ res.err \in {"readBytes", "panic"}]
    /\ UNCHANGED <<lob, lobCount, lw, src, chunk, fed>>
    /\ UNCHANGED <<cancelVars, mutexVars, stmtVars>>

InitLob ==
    /\ lob = NoLob
    /\ lobCount = 0
    /\ lw = NewWriter(NilLob)
    /\ src = <<>>
    /\ chunk = 1
    /\ fed = 0
    /\ lr = NewReader(NilLob)
    /\ out = <<>>
    /\ lobLog = NoLog

NextLob ==
    \/ \E v \in LobValues, plan \in LobPlans : DataSetLOB(v, plan)
    \/ \E s \in Contents, c \in {1, 2} : StartWrite(s, c)
    \/ \E nat \in WriteNats : LobWrite(nat)
    \/ \E flushOk \in BOOLEAN, closeOk \in BOOLEAN : LobClose(flushOk, closeOk)
    \/ StartRead
    \/ \E plen \in 0..MaxReadBuf, nat \in ReadNats : LobRead(plen, nat)

(***************************************************************************)
(* Part 4. The statement: the binder (bindVars), the executor              *)
(* (ExecContext, QueryContext), the row materializer (rows) and Close.     *)
(*                                                                         *)
(* A bind argument is a driver.NamedValue [Name, Ordinal, Value]; a value  *)
(* is a record [t, n, lens]: t is its Go type, n its length (slices, byte  *)
(* sequences and strings; 0 otherwise) and lens the lengths of its         *)
(* elements when they are byte sequences or strings (<<>> otherwise).      *)
(* Element j of a slice has the slice's element type.                      *)
(***************************************************************************)
\* const maxArraySize = 1 << 10
maxArraySize == 1024

\* const fetchRowCount = 1
fetchRowCount == 1

\* reflect.Value.Kind() == reflect.Slice
SliceTypes ==
    {"[]Lob", "[]int", "[]int8", "[]int16", "[]int32", "[]int64", "[]uint", "[]uint16",
     "[]uint32", "[]uint64", "[]float32", "[]float64", "[]bool", "[]byte", "[][]byte",
     "[]string", "[]time.Time"}

\* The type of the elements of a slice type.
ElemType(t) ==
    CASE t = "[]Lob" -> "Lob"
      [] t = "[]int" -> "int"
      [] t = "[]int8" -> "int8"
      [] t = "[]int16" -> "int16"
      [] t = "[]uint16" -> "uint16"
      [] t = "[]uint32" -> "uint32"
      [] t = "[]int32" -> "int32"
      [] t = "[]int64" -> "int64"
      [] t = "[]uint" -> "uint"
      [] t = "[]uint64" -> "uint64"
      [] t = "[]float32" -> "float32"
      [] t = "[]float64" -> "float64"
      [] t = "[]bool" -> "bool"
      [] t = "[]byte" -> "uint8"
      [] t = "[][]byte" -> "[]byte"
      [] t = "[]string" -> "string"
      [] t = "[]time.Time" -> "time.Time"
      [] OTHER -> "invalid"

\* A bound value: t is the Go type of the value and n its length. wrap tells how
\* the argument carries it: "none" (the value itself), "Out" (sql.Out{Dest: v})
\* or "OutPtr" (sql.Out{Dest: &v}).
Unwrapped(v) == [v EXCEPT !.wrap = "none"]

\* value := a.Value; an sql.Out is replaced by its Dest, a pointer Dest by what
\* it points to.
Unwrap(v) == IF v.wrap \in {"Out", "OutPtr"} THEN Unwrapped(v) ELSE v

\* The dynamic type of the argument value itself (%T of a.Value).
TypeOf(v) == IF v.wrap = "none" THEN v.t ELSE "sql.Out"

\* The type switch of bindVars: the setter chosen for a value of type t, "none"
\* for the default branch.
Dispatch(t) ==
    CASE t \in {"Lob", "[]Lob"} -> "dataSetLOB"
      [] t \in {"int", "[]int", "int32", "[]int32", "int64", "[]int64"} -> "dataSetNumber"
      [] t \in {"uint", "[]uint", "uint64", "[]uint64"} -> "dataSetNumber"
      [] t \in {"float32", "[]float32", "float64", "[]float64"} -> "dataSetNumber"
      [] t \in {"bool", "[]bool"} -> "setBool"
      [] t \in {"[]byte", "[][]byte"} -> "dataSetBytes"
      [] t \in {"string", "[]string"} -> "dataSetBytes"
      [] t \in {"time.Time", "[]time.Time"} -> "setTimestamp"
      [] OTHER -> "none"

\* The longest element of a slice whose first elements have the lengths lens (the
\* others are empty).
MaxElemLen(lens) ==
    IF lens = <<>> THEN 0
    ELSE CHOOSE x \in {lens[k] : k \in DOMAIN lens} : \A k \in DOMAIN lens : lens[k] <= x

\* bufSize as the type switch of bindVars computes it for the (unwrapped) value v:
\* the length of a byte sequence, four times the length of a text, the largest of
\* these over the elements of a slice, and 0 for every other type.
BufSize(v) ==
    CASE v.t = "[]byte" -> v.n
      [] v.t = "[][]byte" -> MaxElemLen(v.lens)
      [] v.t = "string" -> 4 * v.n
      [] v.t = "[]string" -> 4 * MaxElemLen(v.lens)
      [] OTHER -> 0

\* The slot holds a value after a setter call with this outcome.
Stored(r) == r \in {"ok", "errSet"}

\* A setter call with this outcome returned nil.
ReturnedNil(r) == r \in {"ok", "okUnset"}

\* What a setter does with the value v it is given: "ok", "err" (it returns an
\* error and the slot holds no value), "errSet" (it returns an error after it has
\* stored into the slot: dataSetLOB calls dpiVar_setFromLob before it returns the
\* error of the copy), "okUnset" (it returns nil and the slot holds no value:
\* dataSetLOB does not look at the result of dpiVar_setFromLob) or "panic" (a
\* failed type assertion, or &x[0] of an empty sequence). lobNat tells how the
\* native LOB calls of dataSetLOB go: all succeed ("ok"), dpiConn_newTempLob fails
\* ("newTempLob"), a native call of the copy or of the writer's Close fails
\* ("copy"), dpiVar_setFromLob fails ("set"), or both of the last two ("copySet").
SetValue(setter, v, lobNat) ==
    CASE setter = "dataSetNumber" ->
            IF TypeOf(v) \in {"int", "int32", "int64", "uint", "uint32", "uint64",
                              "float32", "float64"}
            THEN "ok" ELSE "err"
      [] setter = "setBool" -> IF TypeOf(v) = "bool" THEN "ok" ELSE "panic"
      [] setter = "dataSetBytes" ->
            IF TypeOf(v) \in {"[]byte", "string"}
            THEN (IF v.n = 0 THEN "panic" ELSE "ok")
            ELSE "err"
      [] setter = "setTimestamp" -> IF TypeOf(v) = "time.Time" THEN "ok" ELSE "panic"
      [] setter = "dataSetLOB" ->
            IF TypeOf(v) # "Lob" THEN "panic"
            ELSE IF v.n = 0 THEN "ok"
            ELSE CASE lobNat = "ok" -> "ok"
                   [] lobNat = "copy" -> "errSet"
                   [] lobNat = "set" -> "okUnset"
                   [] OTHER -> "err"
      [] OTHER -> "panic"

\* rArgs[i].Index(j).Interface(), j counted from 0: the element, or a value of
\* type "panic" when reflect panics (not a slice or string, or j out of range).
IndexValue(v, j) ==
    IF TypeOf(v) \in SliceTypes /\ j < v.n
    THEN [n |-> IF j < Len(v.lens) THEN v.lens[j + 1] ELSE 0, t |-> ElemType(v.t),
          wrap |-> "none", lens |-> <<>>]
    ELSE IF TypeOf(v) = "string" /\ j < v.n
    THEN [n |-> 0, t |-> "uint8", wrap |-> "none", lens |-> <<>>]
    ELSE [n |-> 0, t |-> "panic", wrap |-> "none", lens |-> <<>>]

\* A Go slice: its backing array and its length; cap is the array's length.
NilSlice == [arr |-> <<>>, len |-> 0]

\* if cap(s) < n { s = make([]T, n) } else { s = s[:n] }
Resize(s, n, zero) ==
    IF Len(s.arr) < n THEN [arr |-> [i \in 1..n |-> zero], len |-> n]
    ELSE [s EXCEPT !.len = n]

\* A nil *C.dpiVar.
NilVar == 0

\* The scan of the slice lengths: minArrLen and maxArrLen after the arguments
\* from i on, given the values before.
RECURSIVE ScanLens(_, _, _, _)
ScanLens(args, i, mn, mx) ==
    IF i > Len(args) THEN <<mn, mx>>
    ELSE LET v == args[i].Value
         IN  IF TypeOf(v) = "[]byte" \/ TypeOf(v) \notin SliceTypes
             THEN ScanLens(args, i + 1, mn, mx)
             ELSE ScanLens(args, i + 1,
                           IF mn = -1 \/ v.n < mn THEN v.n ELSE mn,
                           IF mx = -1 \/ v.n > mx THEN v.n ELSE mx)

\* A size check that rejects the ceiling itself.
SizeExceeded_Inclusive(maxArrLen) == maxArrLen >= maxArraySize

\* if maxArrLen > maxArraySize
SizeExceeded(maxArrLen) == maxArrLen > maxArraySize

\* A shape check that ignores the lengths.
ShapeMismatch_Never(flag, mn, mx) == FALSE

\* if !st.PlSQLArrays && minArrLen != -1 && minArrLen != maxArrLen
ShapeMismatch(flag, mn, mx) == ~flag /\ mn # -1 /\ mn # mx

\* doExecMany := !st.PlSQLArrays && st.arrLen > 0
DoExecMany(flag, arrLen) == ~flag /\ arrLen > 0

\* A native variable (native side): what it is for, its slots and how often
\* dpiVar_release was called on it. A handle is an index into the registry.
NewNativeVar(kind, n) == [n |-> n, kind |-> kind, releases |-> 0]

\* A data array ([]C.dpiData) of n slots of which set hold a value a setter
\* stored: the setter loop goes through the slots in order, from slot 0.
NewData(n, set) == [n |-> n, set |-> set]

\* A nil data array.
NilData == NewData(0, 0)

(***************************************************************************)
(* The native failure a call meets, if any: [at, i]. Every native failure  *)
(* ends the call, so one call meets at most one. at is "none", "ctx" (the  *)
(* context is already cancelled), "newVar" and "bind" (argument i),        *)
(* "execute", "rowCount", "info", "colVar" and "define" (column i),        *)
(* "addRef". The failures of the LOB setter of argument i do not all end   *)
(* the call: "setLob" (dpiConn_newTempLob, the setter returns), "copyLob"  *)
(* (a native call of the copy into the temporary LOB or of the close of    *)
(* its writer; dpiVar_setFromLob is still called), "varLob"                *)
(* (dpiVar_setFromLob, whose result is discarded) and "copyVarLob" (both   *)
(* of the last two). A LOB failure hits the first element of the argument  *)
(* that has a reader.                                                      *)
(***************************************************************************)
NoFault == [i |-> 0, at |-> "none"]

\* The slots of v (from 0) whose element has a length above 0 (for a Lob: a
\* reader).
NonEmptySlots(v) == {j \in 0..(Len(v.lens) - 1) : v.lens[j + 1] > 0}

\* The outcome of the setter call for slot j (from 0) in batch mode. The LOB
\* natives fail as lobNat tells in the first call that reaches them.
SetIndexed(setter, v, j, lobNat) ==
    LET e == IndexValue(v, j)
    IN  IF e.t = "panic" THEN "panic"
        ELSE SetValue(setter, e,
                      IF \A k \in NonEmptySlots(v) : j <= k THEN lobNat ELSE "ok")

\* The least slot of a set of slots.
FirstSlot(S) == CHOOSE j \in S : \A k \in S : j <= k

\* What the setter calls of one argument leave when k calls have returned nil and
\* the next one ends with r: the number of calls that returned nil (done), the
\* outcome of the last call (res) and the number of slots that hold a value
\* (stored).
SetOutcome(k, r) ==
    [done |-> IF ReturnedNil(r) THEN k + 1 ELSE k, res |-> r,
     stored |-> IF Stored(r) THEN k + 1 ELSE k]

\* The outcome with lost slots less stored: the slots whose setter call returned
\* nil without storing.
LessStored(o, lost) == [o EXCEPT !.stored = @ - lost]

\* The number of slots before slot m whose setter call returned nil without
\* storing.
UnsetBefore(setter, v, m, lobNat) ==
    Cardinality({j \in NonEmptySlots(v) :
                    j < m /\ SetIndexed(setter, v, j, lobNat) = "okUnset"})

\* for j := 0; j < dataSliceLen; j++ { set(dv, j, &data[j], rArgs[i].Index(j).Interface()) }:
\* the number of calls that returned nil (done), the number of slots that hold a
\* value (stored) and the outcome of the last call; the loop ends at the first
\* slot whose setter call does not return nil, and that slot is stored too when
\* the setter stored before it failed. The elements from index Len(v.lens) up to the
\* value's length are equal, and so are the (missing) ones from its length on, so the
\* first slot of each run decides for the run.
SetSlots(setter, v, n, lobNat) ==
    LET bad == {j \in (0..Len(v.lens)) \cup {v.n} :
                   j < n /\ ~ReturnedNil(SetIndexed(setter, v, j, lobNat))}
    IN  IF bad = {}
        THEN LessStored([done |-> n, res |-> "ok", stored |-> n],
                        UnsetBefore(setter, v, n, lobNat))
        ELSE LessStored(SetOutcome(FirstSlot(bad),
                                   SetIndexed(setter, v, FirstSlot(bad), lobNat)),
                        UnsetBefore(setter, v, FirstSlot(bad), lobNat))

\* The per-argument loop of bindVars from argument i on. b is the binder's state:
\*   vars, data   st.vars and st.data
\*   reg          the native variables
\*   named        a name was seen
\*   allocs       newVar calls that succeeded
\*   sets         setter calls that returned nil
\*   err          "nil" or the error returned
\* The type switch of bindVars: the native type (natTyp) chosen for a value of
\* type t, "none" for the default branch.
NativeType(t) ==
    CASE t \in {"int", "[]int", "int32", "[]int32", "int64", "[]int64"} -> "INT64"
      [] t \in {"uint", "[]uint", "uint64", "[]uint64"} -> "UINT64"
      [] t \in {"float32", "[]float32"} -> "FLOAT"
      [] t \in {"float64", "[]float64"} -> "DOUBLE"
      [] t \in {"bool", "[]bool"} -> "BOOLEAN"
      [] t \in {"[]byte", "[][]byte", "string", "[]string"} -> "BYTES"
      [] t \in {"time.Time", "[]time.Time"} -> "TIMESTAMP"
      [] t \in {"Lob", "[]Lob"} -> "LOB"
      [] OTHER -> "none"

\* How the native LOB calls of the setter of argument i go under the fault.
LobNat(fault, i) ==
    IF fault.i # i THEN "ok"
    ELSE IF fault.at = "setLob" THEN "newTempLob"
    ELSE IF fault.at = "copyLob" THEN "copy"
    ELSE IF fault.at = "varLob" THEN "set"
    ELSE IF fault.at = "copyVarLob" THEN "copySet"
    ELSE "ok"

\* The setter calls for the value v of one argument: one call for slot 0, or the
\* loop over the n slots in batch mode.
SetArg(setter, v, many, n, lobNat) ==
    IF many THEN SetSlots(setter, v, n, lobNat)
    ELSE SetOutcome(0, SetValue(setter, v, lobNat))

\* The binder's state after newVar succeeded for argument i (value v) and the
\* setter calls ended with sr: the variable and the data array are kept in
\* st.vars[i] and st.data[i] whether or not a setter call failed.
VarBound(b, i, v, n, sr) ==
    [b EXCEPT !.reg = Append(@, NewNativeVar("bind", n)),
              !.vars.arr[i] = Len(b.reg) + 1,
              !.data.arr[i] = NewData(n, sr.stored),
              !.allocs = @ + 1,
              !.sets = @ + sr.done,
              !.bufSizes = Append(@, BufSize(Unwrap(v))),
              !.natTypes = Append(@, NativeType(Unwrap(v).t)),
              !.err = IF ReturnedNil(sr.res) THEN "nil"
                      ELSE IF sr.res = "panic" THEN "panic" ELSE "set",
              !.errArg = IF ReturnedNil(sr.res) THEN @ ELSE i]

RECURSIVE BindLoop(_, _, _, _, _, _)
BindLoop(args, i, b, many, n, fault) ==
    IF i > Len(args) \/ b.err # "nil" THEN b
    ELSE LET a == args[i]
             named == b.named \/ a.Name # ""
             setter == Dispatch(Unwrap(a.Value).t)
         IN  IF setter = "none"
             THEN [b EXCEPT !.named = named, !.err = "dispatch", !.errArg = i,
                            !.errType = Unwrap(a.Value).t]
             ELSE IF fault.at = "newVar" /\ fault.i = i
             THEN [b EXCEPT !.named = named, !.err = "newVar", !.errArg = i,
                            !.vars.arr[i] = NilVar, !.data.arr[i] = NilData]
             ELSE BindLoop(args, i + 1,
                           VarBound([b EXCEPT !.named = named], i, a.Value, n,
                                    SetArg(setter, a.Value, many, n,
                                           LobNat(fault, i))),
                           many, n, fault)

\* The decimal digit d as a string.
Digit(d) ==
    CASE d = 0 -> "0" [] d = 1 -> "1" [] d = 2 -> "2" [] d = 3 -> "3" [] d = 4 -> "4"
      [] d = 5 -> "5" [] d = 6 -> "6" [] d = 7 -> "7" [] d = 8 -> "8" [] d = 9 -> "9"

\* strconv.Itoa(n) for n >= 0.
RECURSIVE Itoa(_)
Itoa(n) == IF n < 10 THEN Digit(n) ELSE Itoa(n \div 10) \o Digit(n % 10)

\* An attach step that leaves unnamed arguments at their position.
AttachCall_Mixed(args, vars, named, i) ==
    IF named /\ args[i].Name # ""
    THEN [by |-> "name", key |-> args[i].Name, var |-> vars.arr[i]]
    ELSE [by |-> "pos", key |-> IF named THEN Itoa(i) ELSE i, var |-> vars.arr[i]]

\* The bind call for argument i (from 1): dpiStmt_bindByPos(i, vars[i]) when no
\* argument is named, else dpiStmt_bindByName under the argument's name, or
\* under strconv.Itoa(a.Ordinal) when its name is empty.
AttachCall(args, vars, named, i) ==
    IF ~named THEN [by |-> "pos", key |-> i, var |-> vars.arr[i]]
    ELSE [by |-> "name",
          key |-> IF args[i].Name = "" THEN Itoa(args[i].Ordinal) ELSE args[i].Name,
          var |-> vars.arr[i]]

\* The attach loop of bindVars: the bind calls made (position or name, and
\* variable), up to the one that fails.
RECURSIVE AttachLoop(_, _, _, _, _)
AttachLoop(args, vars, named, i, fault) ==
    IF i > vars.len THEN <<>>
    ELSE LET call == AttachCall(args, vars, named, i)
         IN  IF fault.at = "bind" /\ fault.i = i THEN <<call>>
             ELSE <<call>> \o AttachLoop(args, vars, named, i + 1, fault)

\* statement.bindVars(args) on the statement s with the native variables reg.
BindVars(s, reg, args, fault) ==
    LET vars0 == Resize(s.vars, Len(args), NilVar)
        data0 == Resize(s.data, Len(args), NilData)
        mm == ScanLens(args, 1, -1, -1)
        s0 == [s EXCEPT !.vars = vars0, !.data = data0]
        b0 == [err |-> "nil", data |-> data0, reg |-> reg, vars |-> vars0,
               allocs |-> 0, sets |-> 0, bufSizes |-> <<>>, natTypes |-> <<>>, errArg |-> 0,
               named |-> FALSE, errType |-> ""]
        r0 == [st |-> s0, err |-> "nil", reg |-> reg, allocs |-> 0, sets |-> 0,
               bufSizes |-> <<>>, natTypes |-> <<>>, errArg |-> 0, named |-> FALSE,
               errType |-> "", min |-> mm[1], max |-> mm[2],
               binds |-> <<>>]
    IN  IF SizeExceeded(mm[2]) THEN [r0 EXCEPT !.err = "size"]
        ELSE IF ShapeMismatch(s.PlSQLArrays, mm[1], mm[2]) THEN [r0 EXCEPT !.err = "shape"]
        ELSE LET many == DoExecMany(s.PlSQLArrays, mm[1])
                 n == IF many THEN mm[1] ELSE 1
                 b == BindLoop(args, 1, b0, many, n, fault)
                 s1 == [s0 EXCEPT !.arrLen = mm[1], !.vars = b.vars, !.data = b.data]
                 r1 == [r0 EXCEPT !.st = s1, !.reg = b.reg, !.err = b.err,
                                  !.errArg = b.errArg, !.allocs = b.allocs,
                                  !.sets = b.sets, !.named = b.named,
                                  !.bufSizes = b.bufSizes,
                                  !.natTypes = b.natTypes, !.errType = b.errType]
             IN  IF b.err # "nil" THEN r1
                 ELSE LET calls1 == AttachLoop(args, b.vars, b.named, 1, fault)
                      IN  [r1 EXCEPT !.binds = calls1,
                                     !.err = IF fault.at = "bind" /\ fault.i \in 1..Len(args)
                                             THEN "bind" ELSE "nil",
                                     !.errArg = IF fault.at = "bind" /\ fault.i \in 1..Len(args)
                                                THEN fault.i ELSE 0]


(***************************************************************************)
(* The statement st is a record:                                           *)
(*   vars, data   st.vars and st.data (Go slices)                          *)
(*   PlSQLArrays  the opaque-array flag                                    *)
(*   arrLen       st.arrLen                                                *)
(*   dpiStmt      st.dpiStmt is not nil                                    *)
(* nvars is the registry of native variables; stLog holds what the last    *)
(* statement operation did and returned:                                   *)
(*   op           "none", "Exec", "Query", "Close", "Next", "RowsClose"    *)
(*   args, flag   the arguments and the flag of the last bind              *)
(*   fault        the native failure the operation was to meet             *)
(*   err, errArg  the error returned ("nil" for none) and its argument     *)
(*   min, max     minArrLen and maxArrLen of the last bind                 *)
(*   allocs       native variables bindVars allocated                      *)
(*   colAllocs    native variables openRows allocated                      *)
(*   sets         setter calls the bind made                               *)
(*   binds        the attach calls the bind made                           *)
(*   exec, iters  the native execution issued and its iteration count      *)
(*   nilRel       dpiVar_release calls on a nil variable                   *)
(*   nilStmtRel   dpiStmt_release was called on a nil statement handle     *)
(*   cur          the cursor the operation worked on                       *)
(*   bound        bindVars was called                                      *)
(*   res          what came back beside err: "none", "nil" (a nil result), *)
(*                "result", "rows", "row"                                  *)
(*   fetch        the operation issued a native fetch                      *)
(*   eofBefore    Next had returned io.EOF on the cursor before this call  *)
(*   slotReads    the column buffers of which Next read a slot             *)
(*   nested       nested cursors Next opened                               *)
(* nstmt counts the native calls on the statement handle's reference       *)
(* count: dpiStmt_addRef that succeeded and dpiStmt_release on the handle. *)
(* A cursor (rows) is a record:                                            *)
(*   vars         r.vars, NilVar where nothing was allocated               *)
(*   err          how openRows ended: "nil", "info", "colVar", "define",   *)
(*                "addRef"                                                 *)
(*   returned     openRows returned &r (not nil)                           *)
(*   ref          dpiStmt_addRef succeeded for it                          *)
(*   finished, fetched, bufferRowIndex    the fields of rows               *)
(*   closes       rows.Close calls                                         *)
(*   stmtRel      dpiStmt_release calls rows.Close made on the handle      *)
(*   eof          Next has returned io.EOF                                 *)
(*   types        the kind of each column (see ColKinds)                   *)
(*   nulls        the columns whose slot is null in the buffered row       *)
(* A bound Lob value has n = 0 when its Reader is nil and n = 1 otherwise. *)
(***************************************************************************)
\* &statement{conn: c, dpiStmt: dpiStmt}; inTransaction is the field of the
\* connection the statement was prepared on.
NewStatement ==
    [data |-> NilSlice, arrLen |-> 0, vars |-> NilSlice, PlSQLArrays |-> FALSE,
     dpiStmt |-> TRUE, inTransaction |-> FALSE]

NoStLog ==
    [op |-> "none", res |-> "none", err |-> "nil", eofBefore |-> FALSE, args |-> <<>>,
     flag |-> FALSE, fault |-> NoFault, allocs |-> 0, sets |-> 0, bufSizes |-> <<>>,
     natTypes |-> <<>>, errArg |-> 0, errType |-> "", min |-> -1, max |-> -1,
     binds |-> <<>>, exec |-> "none", iters |-> 0,
     nilRel |-> 0, cur |-> 0, bound |-> FALSE, fetch |-> FALSE,
     colAllocs |-> 0, nilStmtRel |-> FALSE, commit |-> FALSE, slotReads |-> <<>>,
     nested |-> 0]

V(t, n) == [n |-> n, t |-> t, wrap |-> "none", lens |-> <<>>]

\* A slice of byte sequences or texts whose elements have the lengths lens.
VL(t, lens) == [n |-> Len(lens), t |-> t, wrap |-> "none", lens |-> lens]

\* sql.Out{Dest: v}, or sql.Out{Dest: &v} when ptr.
Out(v, ptr) == [v EXCEPT !.wrap = IF ptr THEN "OutPtr" ELSE "Out"]

\* Exec/Query of database/sql: nargs[i].Ordinal = i + 1, no names.
MkArgs(vals) == [i \in 1..Len(vals) |-> [Value |-> vals[i], Name |-> "", Ordinal |-> i]]

\* An executor that never batches.
ExecMode_Single(s) == [exec |-> "execute", iters |-> 1]

\* The execution ExecContext issues after a successful bind.
ExecMode(s) ==
    IF ~s.PlSQLArrays /\ s.arrLen > 0
    THEN [exec |-> "executeMany", iters |-> s.arrLen]
    ELSE [exec |-> "execute", iters |-> 1]

\* mode |= DPI_MODE_EXEC_COMMIT_ON_SUCCESS in ExecContext: whether the execution
\* mode carries commit-on-success.
CommitOnSuccess(s) == ~s.inTransaction

\* The mode QueryContext executes with, DPI_MODE_EXEC_DEFAULT: no
\* commit-on-success.
QueryCommitOnSuccess == FALSE

\* statement.CheckNamedValue with nv.Value == PlSQLArrays
SetPlSQLArrays ==
    /\ st' = [st EXCEPT !.PlSQLArrays = TRUE]
    /\ UNCHANGED <<nvars, nstmt, cursors, stLog>>
    /\ UNCHANGED <<cancelVars, mutexVars, lobVars>>

\* statement.ExecContext(ctx, args). Callers do not execute a statement they have
\* closed (st.dpiStmt is nil then).
ExecContext(args, fault) ==
    /\ st.dpiStmt
    /\ Len(nvars) + Len(args) <= MaxNVars
    /\ IF fault.at = "ctx"
       THEN /\ stLog' = [NoStLog EXCEPT !.op = "Exec", !.args = args, !.fault = fault,
                                        !.flag = st.PlSQLArrays, !.err = "ctx"]
            /\ UNCHANGED <<st, nvars>>
       ELSE \E b \in {BindVars(st, nvars, args, fault)} :
            LET m == ExecMode(b.st)
                log == [NoStLog EXCEPT !.op = "Exec", !.args = args, !.flag = st.PlSQLArrays,
                                       !.fault = fault, !.bound = TRUE, !.err = b.err,
                                       !.errArg = b.errArg,
                                       !.min = b.min, !.max = b.max, !.allocs = b.allocs,
                                       !.sets = b.sets, !.binds = b.binds,
                                       !.bufSizes = b.bufSizes,
                                       !.natTypes = b.natTypes, !.errType = b.errType]
            IN  /\ st' = b.st
                /\ nvars' = b.reg
                /\ stLog' = IF b.err # "nil" THEN log
                            ELSE [log EXCEPT !.exec = m.exec, !.iters = m.iters,
                                             !.commit = CommitOnSuccess(b.st),
                                             !.err = IF fault.at = "execute" THEN "execute"
                                                     ELSE "nil",
                                             !.res = IF fault.at = "execute" THEN "none"
                                                     ELSE IF fault.at = "rowCount" THEN "nil"
                                                     ELSE "result"]
    /\ UNCHANGED <<nstmt, cursors>>
    /\ UNCHANGED <<cancelVars, mutexVars, lobVars>>

\* C.dpiVar_release(v) for the variables in hs (nil entries skipped here).
ReleaseAll(reg, hs) ==
    [h \in DOMAIN reg |->
        LET k == Cardinality({i \in DOMAIN hs : hs[i] = h})
        IN  [reg[h] EXCEPT !.releases = @ + k]]

\* The live part of a Go slice.
Live(s) == SubSeq(s.arr, 1, s.len)

\* statement.Close(): relOk tells whether dpiStmt_release succeeds.
StmtClose(relOk) ==
    /\ nstmt.releases < MaxReleases
    /\ nvars' = ReleaseAll(nvars, Live(st.vars))
    /\ nstmt' = IF st.dpiStmt THEN [nstmt EXCEPT !.releases = @ + 1] ELSE nstmt
    /\ st' = IF relOk THEN [st EXCEPT !.data = NilSlice, !.vars = NilSlice, !.dpiStmt = FALSE]
             ELSE st
    /\ stLog' = [NoStLog EXCEPT !.op = "Close", !.err = IF relOk THEN "nil" ELSE "release",
                                !.nilStmtRel = ~st.dpiStmt,
                                !.nilRel = Cardinality({i \in 1..st.vars.len :
                                                           st.vars.arr[i] = NilVar})]
    /\ UNCHANGED cursors
    /\ UNCHANGED <<cancelVars, mutexVars, lobVars>>

\* The column loop of openRows from column i on: r is [vars, reg, err].
RECURSIVE ColumnLoop(_, _, _, _)
ColumnLoop(i, colCount, r, fault) ==
    IF i > colCount THEN r
    ELSE IF fault.at = "info" /\ fault.i = i THEN [r EXCEPT !.err = "info"]
    ELSE IF fault.at = "colVar" /\ fault.i = i THEN [r EXCEPT !.err = "colVar"]
    ELSE LET h == Len(r.reg) + 1
             r1 == [r EXCEPT !.reg = Append(@, NewNativeVar("col", fetchRowCount)),
                             !.vars[i] = h]
         IN  IF fault.at = "define" /\ fault.i = i THEN [r1 EXCEPT !.err = "define"]
             ELSE ColumnLoop(i + 1, colCount, r1, fault)

\* The kinds of column the switch of rows.Next tells apart: a type with a case
\* that converts the slot ("value"), a nested cursor ("stmt") and a type with no
\* case ("other", the default branch).
ColKinds == {"value", "stmt", "other"}

\* The column kinds dpiStmt_getQueryInfo can report for n columns.
ColTypeLists(n) == [1..n -> ColKinds]

\* statement.openRows(colCount): the registry after it and the cursor it built;
\* returned tells whether the caller gets &r or nil.
OpenRows(reg, types, fault) ==
    LET colCount == Len(types)
        r == ColumnLoop(1, colCount,
                        [err |-> "nil", reg |-> reg, vars |-> [i \in 1..colCount |-> NilVar]],
                        fault)
        err == IF r.err # "nil" THEN r.err
               ELSE IF fault.at = "addRef" THEN "addRef" ELSE "nil"
    IN  [reg |-> r.reg,
         cur |-> [closes |-> 0, err |-> err, finished |-> FALSE,
                  vars |-> r.vars, types |-> types, returned |-> err \in {"nil", "addRef"},
                  ref |-> err = "nil", fetched |-> 0, bufferRowIndex |-> 0, stmtRel |-> 0,
                  eof |-> FALSE, nulls |-> {}]]

\* statement.QueryContext(ctx, args); the length of types is the colCount that
\* dpiStmt_execute reports.
QueryContextUpTo(limit, args, types, fault) ==
    /\ st.dpiStmt
    /\ Len(cursors) < limit
    /\ Len(nvars) + Len(args) + Len(types) <= MaxNVars
    /\ IF fault.at = "ctx"
       THEN /\ stLog' = [NoStLog EXCEPT !.op = "Query", !.args = args, !.fault = fault,
                                        !.flag = st.PlSQLArrays, !.err = "ctx"]
            /\ UNCHANGED <<st, nvars, nstmt, cursors>>
       ELSE \E b \in {BindVars(st, nvars, args, fault)} :
            LET log == [NoStLog EXCEPT !.op = "Query", !.args = args, !.flag = st.PlSQLArrays,
                                       !.fault = fault, !.bound = TRUE, !.err = b.err,
                                       !.errArg = b.errArg,
                                       !.min = b.min, !.max = b.max, !.allocs = b.allocs,
                                       !.sets = b.sets, !.binds = b.binds,
                                       !.bufSizes = b.bufSizes,
                                       !.natTypes = b.natTypes, !.errType = b.errType]
            IN  \E o \in {OpenRows(b.reg, types, fault)} :
                /\ st' = b.st
                /\ IF b.err # "nil"
                   THEN /\ stLog' = log
                        /\ nvars' = b.reg
                        /\ UNCHANGED <<nstmt, cursors>>
                   ELSE IF fault.at = "execute"
                   THEN /\ stLog' = [log EXCEPT !.exec = "execute", !.iters = 1,
                                                !.commit = QueryCommitOnSuccess,
                                                !.err = "execute"]
                        /\ nvars' = b.reg
                        /\ UNCHANGED <<nstmt, cursors>>
                   ELSE /\ stLog' = [log EXCEPT !.exec = "execute", !.iters = 1,
                                                !.commit = QueryCommitOnSuccess,
                                                !.err = o.cur.err,
                                                !.colAllocs = Len(o.reg) - Len(b.reg),
                                                !.res = IF o.cur.returned THEN "rows" ELSE "nil",
                                                !.cur = Len(cursors) + 1]
                        /\ nvars' = o.reg
                        /\ nstmt' = IF o.cur.ref THEN [nstmt EXCEPT !.addRefs = @ + 1]
                                    ELSE nstmt
                        /\ cursors' = Append(cursors, o.cur)
    /\ UNCHANGED <<cancelVars, mutexVars, lobVars>>

\* QueryContext in the specifications that follow one cursor.
QueryContext(args, types, fault) == QueryContextUpTo(MaxCursors, args, types, fault)

\* conn.Commit() on the statement's connection: ok tells whether dpiConn_commit
\* succeeds.
Commit(ok) ==
    /\ st' = [st EXCEPT !.inTransaction = FALSE]
    /\ stLog' = [NoStLog EXCEPT !.op = "Commit", !.err = IF ok THEN "nil" ELSE "commit"]
    /\ UNCHANGED <<nvars, nstmt, cursors>>
    /\ UNCHANGED <<cancelVars, mutexVars, lobVars>>

\* conn.Rollback() on the statement's connection: ok tells whether
\* dpiConn_rollback succeeds.
Rollback(ok) ==
    /\ st' = [st EXCEPT !.inTransaction = FALSE]
    /\ stLog' = [NoStLog EXCEPT !.op = "Rollback", !.err = IF ok THEN "nil" ELSE "rollback"]
    /\ UNCHANGED <<nvars, nstmt, cursors>>
    /\ UNCHANGED <<cancelVars, mutexVars, lobVars>>

\* What dpiStmt_fetchRows answers: res is "ok" or "fail"; fetched and moreRows are
\* the values it writes (fetched is at most fetchRowCount).
FetchNats == [res : {"ok", "fail"}, fetched : 0..fetchRowCount, moreRows : {0, 1}]

\* The native failures openRows can meet on the handle of a nested cursor of n
\* columns.
NestedFaults(n) ==
    {NoFault, [i |-> 0, at |-> "addRef"]} \cup [i : 1..n, at : {"info", "colVar", "define"}]

\* What the natives answer for a nested cursor column: numColsOk tells whether
\* dpiStmt_getNumQueryColumns succeeds, ncols is the count it writes, fault the
\* failure openRows meets. The statement built around the nested handle has no
\* connection (&statement{dpiStmt: ...}): errInfo tells whether its getError
\* returns the error ("ok") or dereferences the nil connection ("panic").
NoNested == [errInfo |-> "ok", fault |-> NoFault, numColsOk |-> FALSE, ncols |-> 0]

NestedPlans ==
    {NoNested}
        \cup {[errInfo |-> e, fault |-> f, numColsOk |-> TRUE, ncols |-> n] :
                 n \in 0..MaxCols, f \in NestedFaults(MaxCols), e \in {"ok", "panic"}}

\* What the column loop of rows.Next meets is a record of the answers for a
\* nested cursor column (nested) and the null slots of the fetched row (nulls).
NoRow == [nested |-> NoNested, nulls |-> {}]

\* The column loop runs: the cursor has a buffered row or the fetch brings one.
LoopRuns(r, nat) ==
    /\ ~r.finished
    /\ r.fetched > 0 \/ (nat.res = "ok" /\ nat.fetched > 0)

\* The answers a call of Next on r can get, each written one way where Next
\* does not read it: no fetch is answered when none is issued, a failed fetch
\* writes nothing, moreRows is read only when no row was fetched; nothing is
\* asked about a row that this call does not fetch or about a nested cursor
\* that no column holds; a null slot matters only in a column that is not
\* converted in place (a converted value and a null both go on to the next
\* column).
RowNatPossible(r, nat, row) ==
    /\ (r.finished \/ r.fetched > 0) => nat = [res |-> "ok", fetched |-> 0, moreRows |-> 0]
    /\ nat.res = "fail" => (nat.fetched = 0 /\ nat.moreRows = 0)
    /\ nat.fetched > 0 => nat.moreRows = 0
    /\ row.nulls \subseteq {i \in 1..Len(r.types) : r.types[i] # "value"}
    /\ (~LoopRuns(r, nat) \/ r.fetched > 0) => row.nulls = {}
    /\ LET nulls == IF r.fetched > 0 THEN r.nulls ELSE row.nulls
           asked == LoopRuns(r, nat)
                       /\ \E i \in 1..Len(r.types) : r.types[i] = "stmt" /\ i \notin nulls
       IN  /\ ~asked => row.nested = NoNested
           /\ row.nested.fault \in NestedFaults(row.nested.ncols)
           /\ row.nested.errInfo = "panic" => row.nested.fault # NoFault

\* The answers of RowNatPossible for the cursor r, as pairs <<nat, row>>.
NestedAnswers ==
    {p \in NestedPlans :
        /\ p.fault \in NestedFaults(p.ncols)
        /\ p.errInfo = "panic" => p.fault # NoFault}

FetchAnswers(r) ==
    IF r.finished \/ r.fetched > 0 THEN {[res |-> "ok", fetched |-> 0, moreRows |-> 0]}
    ELSE {nat \in FetchNats : /\ nat.res = "fail" => (nat.fetched = 0 /\ nat.moreRows = 0)
                              /\ nat.fetched > 0 => nat.moreRows = 0}

RowAnswers(r, nat) ==
    IF ~LoopRuns(r, nat) THEN {NoRow}
    ELSE LET nullSets == IF r.fetched > 0 THEN {{}}
                         ELSE SUBSET {i \in 1..Len(r.types) : r.types[i] # "value"}
             plans(ns) ==
                 LET nulls == IF r.fetched > 0 THEN r.nulls ELSE ns
                 IN  IF \E i \in 1..Len(r.types) : r.types[i] = "stmt" /\ i \notin nulls
                     THEN NestedAnswers ELSE {NoNested}
         IN  UNION {{[nested |-> p, nulls |-> ns] : p \in plans(ns)} : ns \in nullSets}

NextAnswers(r) == UNION {{<<nat, row>> : row \in RowAnswers(r, nat)} : nat \in FetchAnswers(r)}

\* for i, col := range r.columns { ... }: the columns of the buffered row of r,
\* from column i on. acc holds the error met ("nil" for none), the registry of
\* native variables, the number of slots read and of nested cursors opened.
RECURSIVE ReadColumns(_, _, _, _)
ReadColumns(r, nested, i, acc) ==
    IF i > Len(r.types) \/ acc.err # "nil" THEN acc
    ELSE LET a1 == [acc EXCEPT !.read = i]
         IN  IF i \in r.nulls \/ r.types[i] = "value"
             THEN ReadColumns(r, nested, i + 1, a1)
             ELSE IF r.types[i] = "other" THEN [a1 EXCEPT !.err = "unsupported"]
             ELSE IF ~nested.numColsOk THEN [a1 EXCEPT !.err = "numCols"]
             ELSE LET o == OpenRows(a1.reg, [k \in 1..nested.ncols |-> "value"],
                                    nested.fault)
                  IN  IF o.cur.err = "nil"
                      THEN ReadColumns(r, nested, i + 1,
                                       [a1 EXCEPT !.reg = o.reg, !.opened = @ + 1])
                      ELSE [a1 EXCEPT !.reg = o.reg,
                                      !.err = IF nested.errInfo = "panic" THEN "panic"
                                              ELSE o.cur.err]

\* rows.Next(dest) on the cursor r: the cursor after it, what it returns ("row",
\* "EOF" or the error), whether it issued a native fetch, the registry of
\* native variables after it, the slots it read and the nested cursors it opened.
RowsNext(r, nat, row, reg) ==
    LET stay == [ret |-> "EOF", opened |-> 0, r |-> r, reg |-> reg, fetch |-> FALSE,
                 read |-> 0]
    IN  IF r.finished THEN stay
        ELSE IF r.fetched = 0 /\ nat.res = "fail"
        THEN [stay EXCEPT !.ret = "err", !.fetch = TRUE]
        ELSE IF r.fetched = 0 /\ nat.fetched = 0
        THEN [stay EXCEPT !.fetch = TRUE,
                          !.r = [r EXCEPT !.fetched = 0, !.bufferRowIndex = 0,
                                          !.finished = (nat.moreRows = 0)]]
        ELSE LET r1 == IF r.fetched = 0
                       THEN [r EXCEPT !.fetched = nat.fetched, !.bufferRowIndex = 0,
                                      !.nulls = row.nulls]
                       ELSE r
                 cl == ReadColumns(r1, row.nested, 1,
                                   [opened |-> 0, err |-> "nil", reg |-> reg, read |-> 0])
             IN  IF cl.err # "nil"
                 THEN [ret |-> cl.err, opened |-> cl.opened, r |-> r1, reg |-> cl.reg,
                       fetch |-> r.fetched = 0, read |-> cl.read]
                 ELSE [ret |-> "row",
                       opened |-> cl.opened,
                       r |-> [r1 EXCEPT !.fetched = @ - 1, !.bufferRowIndex = @ + 1,
                                        !.nulls = {}], reg |-> cl.reg, fetch |-> r.fetched = 0,
                       read |-> cl.read]

\* rows.Next(dest) on cursor c, which QueryContext returned without an error;
\* nat is the answer of the native fetch, if one is made, and row what the column
\* loop meets. Next does not look at whether the cursor was closed: the fetch
\* goes to the handle the cursor holds and the row is read from slot
\* bufferRowIndex of the column buffers. A nested cursor column makes Next call
\* openRows on the nested handle, which allocates and defines column buffers.
NextRow(c, nat, row) ==
    /\ c \in DOMAIN cursors
    /\ cursors[c].err = "nil"
    /\ RowNatPossible(cursors[c], nat, row)
    /\ \E x \in {RowsNext(cursors[c], nat, row, nvars)} :
          /\ Len(x.reg) <= MaxNVars
          /\ cursors' = [cursors EXCEPT ![c] = [x.r EXCEPT !.eof = @ \/ x.ret = "EOF"]]
          /\ nvars' = x.reg
          /\ stLog' = [NoStLog EXCEPT !.op = "Next", !.cur = c, !.fetch = x.fetch,
                                      !.err = IF x.ret = "row" THEN "nil" ELSE x.ret,
                                      !.res = IF x.ret = "row" THEN "row" ELSE "none",
                                      !.eofBefore = cursors[c].eof,
                                      !.colAllocs = Len(x.reg) - Len(nvars),
                                      !.nested = x.opened,
                                      !.slotReads = SubSeq(cursors[c].vars, 1, x.read)]
    /\ UNCHANGED <<st, nstmt>>
    /\ UNCHANGED <<cancelVars, mutexVars, lobVars>>

\* rows.Close() on cursor c, which openRows returned (not nil); relOk tells
\* whether dpiStmt_release succeeds.
RowsClose(c, relOk) ==
    /\ c \in DOMAIN cursors
    /\ cursors[c].returned
    /\ cursors[c].closes < MaxCloses
    /\ nvars' = ReleaseAll(nvars, cursors[c].vars)
    /\ nstmt' = IF st.dpiStmt THEN [nstmt EXCEPT !.releases = @ + 1] ELSE nstmt
    /\ cursors' = [cursors EXCEPT ![c].closes = @ + 1,
                                  ![c].stmtRel = IF st.dpiStmt THEN @ + 1 ELSE @]
    /\ stLog' = [NoStLog EXCEPT !.op = "RowsClose", !.cur = c,
                                !.err = IF relOk THEN "nil" ELSE "release",
                                !.nilStmtRel = ~st.dpiStmt,
                                !.nilRel = Cardinality({i \in DOMAIN cursors[c].vars :
                                                           cursors[c].vars[i] = NilVar})]
    /\ UNCHANGED st
    /\ UNCHANGED <<cancelVars, mutexVars, lobVars>>

\* The native failures of the LOB setter.
LobFaults == {"setLob", "copyLob", "varLob", "copyVarLob"}

\* The native failures inside bindVars.
BindFaults == {"newVar", "bind"} \cup LobFaults

\* The faults a call with these arguments and this many columns can meet.
Faults(args, colCount, query) ==
    {NoFault, [i |-> 0, at |-> "ctx"], [i |-> 0, at |-> "execute"]}
    \cup [i : 1..Len(args), at : {"newVar", "bind"}]
    \cup [i : {k \in 1..Len(args) : TypeOf(args[k].Value) \in {"Lob", "[]Lob"}},
          at : LobFaults]
    \cup (IF query
          THEN [i : 1..colCount, at : {"info", "colVar", "define"}]
               \cup {[i |-> 0, at |-> "addRef"]}
          ELSE {[i |-> 0, at |-> "rowCount"]})

\* Sequences over S of length lo..hi.
SeqsOf(S, lo, hi) == UNION {[1..n -> S] : n \in lo..hi}

\* The values bound in the binder specification: a scalar, a byte sequence, a
\* value of a type the switch does not know, output parameters around a scalar
\* and around a pointer to one, and slices of every length of interest (small
\* ones, the ceiling and one past it).
BindLens == (0..MaxSmallLen) \cup {maxArraySize, maxArraySize + 1}
BindValues ==
    {V("int64", 0), V("[]byte", 3), V("struct", 0),
     Out(V("int64", 0), FALSE), Out(V("int64", 0), TRUE)}
        \cup {V("[]int64", n) : n \in BindLens}
\* sql.Named(name, v) arguments: database/sql numbers them from 1 like the rest.
MkNamed(names) ==
    [i \in 1..Len(names) |-> [Value |-> V("int64", 0), Name |-> names[i], Ordinal |-> i]]

\* The names given to arguments; "" is an argument passed without a name.
ArgNames == {"", "a", "b"}

\* Byte sequences and texts, empty and not, alone and in slices.
ByteValues ==
    {V("[]byte", 0), V("string", 0), V("string", 2),
     VL("[][]byte", <<2, 1>>), VL("[][]byte", <<1, 0>>),
     VL("[]string", <<1, 2>>), VL("[]string", <<0, 2>>)}

\* The integer types of Go, and the slice types over them that are not byte
\* sequences.
IntTypes ==
    {"int", "int8", "int16", "int32", "int64", "uint", "uint8", "uint16", "uint32", "uint64"}

SignedTypes == {"int", "int8", "int16", "int32", "int64"}

IntSliceTypes ==
    {"[]int", "[]int8", "[]int16", "[]int32", "[]int64", "[]uint", "[]uint16", "[]uint32",
     "[]uint64"}

IntValues == {V(t, 0) : t \in IntTypes} \cup {V(t, 1) : t \in IntSliceTypes}

\* Lob values to bind: without a Reader, with one, and a slice of both.
LobBindValues == {V("Lob", 0), V("Lob", 1), VL("[]Lob", <<1, 0>>)}

BindArgLists ==
    {MkArgs(vals) : vals \in SeqsOf(BindValues, 1, MaxArgs)}
        \cup {MkNamed(names) : names \in SeqsOf(ArgNames, 1, MaxArgs)}
        \cup {MkArgs(vals) : vals \in SeqsOf(ByteValues, 1, MaxArgs)}
        \cup {MkArgs(<<v>>) : v \in IntValues \cup LobBindValues}

\* The values bound in the statement life-cycle specification.
LifeArgLists ==
    {MkArgs(<<>>), MkArgs(<<V("int64", 0)>>), MkArgs(<<V("int64", 0), V("int64", 0)>>),
     MkArgs(<<V("struct", 0)>>)}

\* The columns queried in the statement life-cycle specification: columns of
\* the types rows.Next converts. The other kinds are queried in NextRows.
LifeTypeLists(n) == [1..n -> {"value"}]

InitStmt ==
    /\ st = NewStatement
    /\ nvars = <<>>
    /\ nstmt = [releases |-> 0, addRefs |-> 0]
    /\ cursors = <<>>
    /\ stLog = NoStLog

\* A statement prepared on a plain connection, or on the connection BeginTx
\* opened (c2.inTransaction = true).
InitStmtTx ==
    /\ st \in {[NewStatement EXCEPT !.inTransaction = tx] : tx \in BOOLEAN}
    /\ nvars = <<>>
    /\ nstmt = [releases |-> 0, addRefs |-> 0]
    /\ cursors = <<>>
    /\ stLog = NoStLog

\* One bind and execution on a fresh statement, with or without the flag.
NextBind ==
    \/ stLog.op = "none" /\ SetPlSQLArrays
    \/ \E args \in BindArgLists : \E fault \in Faults(args, 0, FALSE) :
          stLog.op = "none" /\ ExecContext(args, fault)

\* The life cycle of one statement and its cursors.
NextStmt ==
    \/ \E args \in LifeArgLists : \E fault \in Faults(args, 0, FALSE) : ExecContext(args, fault)
    \/ \E args \in LifeArgLists : \E n \in 0..MaxCols : \E types \in LifeTypeLists(n) :
          \E fault \in Faults(args, n, TRUE) : QueryContext(args, types, fault)
    \/ \E relOk \in BOOLEAN : StmtClose(relOk)
    \/ \E c \in DOMAIN cursors : \E a \in NextAnswers(cursors[c]) : NextRow(c, a[1], a[2])
    \/ \E c \in 1..MaxCursors : \E relOk \in BOOLEAN : RowsClose(c, relOk)

\* Executions and queries of one statement, inside and outside a transaction.
NextTx ==
    \/ \E ok \in BOOLEAN : Commit(ok)
    \/ \E ok \in BOOLEAN : Rollback(ok)
    \/ \E args \in LifeArgLists : \E fault \in Faults(args, 0, FALSE) : ExecContext(args, fault)
    \/ \E args \in LifeArgLists : \E n \in 0..MaxCols : \E types \in LifeTypeLists(n) :
          \E fault \in Faults(args, n, TRUE) : QueryContext(args, types, fault)

\* Queries of one statement that meet no failure, and the cursors they return:
\* nothing in QueryContext looks at whether an earlier cursor is still open.
NextRows ==
    \/ \E n \in 1..MaxCols : \E types \in ColTypeLists(n) :
          QueryContextUpTo(MaxOpenRows, MkArgs(<<>>), types, NoFault)
    \/ \E c \in DOMAIN cursors : \E a \in NextAnswers(cursors[c]) : NextRow(c, a[1], a[2])
    \/ \E c \in 1..MaxOpenRows : \E relOk \in BOOLEAN : RowsClose(c, relOk)

(***************************************************************************)
(* Specifications.                                                         *)
(***************************************************************************)
Init == InitCancel /\ InitMutex /\ InitLob /\ InitStmt

SpecCancel == Init /\ [][NextCancel]_allVars

\* A step of the watcher goroutine of call c: the select and what follows it.
WatcherStep(c) ==
    /\ c \in DOMAIN calls
    /\ (WatcherSelectCancel(c) \/ WatcherBreak(c) \/ WatcherSelectDone(c))

\* The caller's goroutine and the watcher goroutines are scheduled: a goroutine
\* that can take a step eventually takes one. Neither the native call's return
\* nor the cancellation of a context is required to happen.
CancelFairness ==
    \A c \in 1..MaxCalls :
        /\ WF_allVars(c \in DOMAIN calls /\ \E rowsOk \in BOOLEAN : SendDone(c, rowsOk))
        /\ WF_allVars(WatcherStep(c))

SpecCancelFair == Init /\ [][NextCancel]_allVars /\ CancelFairness

SpecMutex == Init /\ [][NextMutex]_allVars

SpecLob == Init /\ [][NextLob]_allVars

SpecBind == Init /\ [][NextBind]_allVars

Spec == Init /\ [][NextStmt]_allVars

SpecRows == Init /\ [][NextRows]_allVars

InitTx == InitCancel /\ InitMutex /\ InitLob /\ InitStmtTx

SpecTx == InitTx /\ [][NextTx]_allVars

(***************************************************************************)
(* Claims.                                                                 *)
(***************************************************************************)

\* C1: in ExecContext, QueryContext and Ping the native break (conn.Break) is never
\* requested after the native call has already returned.
C1_NoBreakAfterReturn == \A c \in DOMAIN calls : ~calls[c].lateBreak

\* C6: every temporary locator created by dataSetLOB has had closeResource issued
\* exactly once when dataSetLOB returns, on every path, the writer holds no
\* reference to it any more, and the locator has an owner: it is attached to the
\* slot.
C6_LobClosedOnce ==
    (lobLog.op = "dataSetLOB" /\ lobLog.created) =>
        /\ lob.closes = 1
        /\ lob.opens <= 1
        /\ lw.dpiLob = NilLob
        /\ lob.attached

\* The caller wrote all of src in pieces, closed the writer, and then read the
\* locator until io.EOF, and no native call failed other than a read reporting
\* "no data found" at the end of the content.
RoundTripDone ==
    /\ lobLog.op = "read"
    /\ lobLog.eofSeen
    /\ lobLog.wClosed
    /\ fed = Len(src)
    /\ ~lobLog.natFail
    /\ ~lobLog.readFail

\* C7: LOB round trip: writing a byte sequence of length L through the writer and
\* closing it succeeds with the writer's offset at L, and reading the locator until
\* end-of-stream yields exactly the bytes written.
C7_RoundTrip ==
    RoundTripDone => (~lobLog.wErr /\ lw.offset = Len(src) /\ out = src)

\* C8: once Read has returned io.EOF, every later Read with a non-empty buffer
\* returns io.EOF again and issues no native read.
C8_EofIdempotent ==
    (lobLog.op = "read" /\ lobLog.eofBefore /\ lobLog.plen > 0) =>
        (lobLog.err = "EOF" /\ ~lobLog.native)

\* The arguments of a list whose lengths the binder compares: the slice-valued
\* ones, byte sequences excluded.
SliceArgs(args) == {i \in DOMAIN args : TypeOf(args[i].Value) \in SliceTypes \ {"[]byte"}}

SliceLens(args) == {args[i].Value.n : i \in SliceArgs(args)}

MinOf(S) == CHOOSE x \in S : \A y \in S : x <= y

MaxOf(S) == CHOOSE x \in S : \A y \in S : x >= y

\* The last operation called bindVars with slices of unequal lengths, flag unset.
UnequalBind == stLog.bound /\ ~stLog.flag /\ Cardinality(SliceLens(stLog.args)) > 1

\* The last operation called bindVars with slices that all have length n.
UniformBind(n) == stLog.bound /\ SliceLens(stLog.args) = {n}

\* bindVars allocated no variable, stored nothing and attached nothing.
NothingBound == stLog.allocs = 0 /\ stLog.sets = 0 /\ stLog.binds = <<>>

\* C2 as stated: whenever the slice-valued arguments (byte sequences excluded) do
\* not all have the same length and the PlSQLArrays flag is unset, bindVars fails
\* with a shape error reporting the minimum and maximum length, and nothing is
\* allocated or attached.
C2_ShapeErrorAlways ==
    UnequalBind =>
        /\ stLog.err = "shape"
        /\ stLog.min = MinOf(SliceLens(stLog.args))
        /\ stLog.max = MaxOf(SliceLens(stLog.args))
        /\ NothingBound

\* C2: whenever the slice-valued arguments (byte sequences excluded) do not all
\* have the same length and the PlSQLArrays flag is unset, bindVars fails and
\* nothing is allocated or attached; the failure is the shape error reporting the
\* minimum and maximum length when the maximum is at most maxArraySize, and the
\* size-limit error when it is larger (the size check comes first).
C2_ShapeError ==
    UnequalBind =>
        /\ NothingBound
        /\ stLog.min = MinOf(SliceLens(stLog.args))
        /\ stLog.max = MaxOf(SliceLens(stLog.args))
        /\ IF MaxOf(SliceLens(stLog.args)) <= maxArraySize
           THEN stLog.err = "shape"
           ELSE stLog.err = "size"

\* C2 witness: a bind of slices of lengths 1 and 2 failed with the shape error.
C2_Witness ==
    /\ UnequalBind
    /\ SliceLens(stLog.args) = {1, 2}
    /\ stLog.err = "shape"
    /\ stLog.min = 1
    /\ stLog.max = 2

\* C3: whenever the slice-valued arguments have a uniform length above
\* maxArraySize, bindVars fails with the size-limit error before any native
\* variable is allocated; a uniform length of exactly maxArraySize passes the size
\* check, and a batch bind (flag unset) of such slices of numbers alone that meets
\* no native failure succeeds with one variable per argument.
C3_SizeLimit ==
    /\ \A n \in BindLens :
          (UniformBind(n) /\ n > maxArraySize) => (stLog.err = "size" /\ NothingBound)
    /\ UniformBind(maxArraySize) =>
          /\ stLog.err # "size"
          /\ (/\ ~stLog.flag
              /\ SliceArgs(stLog.args) = DOMAIN stLog.args
              /\ stLog.fault.at \in {"none", "execute", "rowCount"})
             => /\ stLog.allocs = Len(stLog.args)
                /\ stLog.sets = maxArraySize * Len(stLog.args)
                /\ stLog.exec = "executeMany"
                /\ stLog.iters = maxArraySize

\* C3 witness: a bind of slices of uniform length maxArraySize + 1 was refused.
C3_Witness == UniformBind(maxArraySize + 1) /\ stLog.err = "size" /\ stLog.allocs = 0

\* The bind-side native variables.
BindVarsOf(reg) == {h \in DOMAIN reg : reg[h].kind = "bind"}

\* C4: every bind-side native variable is released exactly once: none is released
\* twice, none that a later bind dropped from st.vars is left unreleased, none is
\* left unreleased once Close has succeeded, and Close releases no nil entry.
C4_BindVarsReleasedOnce ==
    /\ \A h \in BindVarsOf(nvars) : nvars[h].releases <= 1
    /\ \A h \in BindVarsOf(nvars) :
          (\A i \in 1..st.vars.len : st.vars.arr[i] # h) => nvars[h].releases = 1
    /\ (stLog.op = "Close") => (stLog.nilRel = 0)

\* The native variables openRows allocated for the cursor r.
ColVarsOf(r) == {r.vars[i] : i \in DOMAIN r.vars} \ {NilVar}

\* C5: rows.Close releases each column buffer of its cursor exactly once and the
\* statement reference acquired at open exactly once, also when Close is called
\* again; a cursor whose open failed and that the caller never gets, or that has
\* been closed, leaves no allocated column buffer unreleased, and no cursor
\* releases a statement reference it did not acquire.
C5_CursorReleasedOnce ==
    \A c \in DOMAIN cursors :
        LET r == cursors[c]
        IN  /\ \A h \in ColVarsOf(r) : nvars[h].releases <= 1
            /\ (r.closes > 0 \/ ~r.returned) => \A h \in ColVarsOf(r) : nvars[h].releases = 1
            /\ r.stmtRel <= (IF r.ref THEN 1 ELSE 0)

\* C9: once rows.Next has returned io.EOF on a cursor, every later Next on it
\* returns io.EOF again, never a row or an error.
C9_ExhaustionIdempotent ==
    (stLog.op = "Next" /\ stLog.eofBefore) => stLog.err = "EOF"

\* C10: no two operations among bind/execute, fetch and Close on one statement use
\* the statement's native handle or its buffers at the same time.
C10_MutualExclusion == Cardinality(Accessing) <= 1

\* C11: dpiLobWriter.Close issues native calls (flush, closeResource) only when the
\* writer's resource was opened successfully and not closed yet; it is a no-op
\* otherwise, and no locator sees more than one flush or more than one
\* closeResource.
C11_CloseNoOpUnlessOpen ==
    /\ (lobLog.op = "wclose" /\ lobLog.native) => lw.opened
    /\ lob.closes <= 1
    /\ lob.flushes <= 1

\* The last operation ran bindVars with the flag unset on arguments whose types the
\* type switch knows, and no newVar or attach call failed.
CleanBatchBind ==
    /\ stLog.bound
    /\ ~stLog.flag
    /\ stLog.fault.at \notin BindFaults
    /\ \A i \in DOMAIN stLog.args :
          /\ Dispatch(TypeOf(stLog.args[i].Value)) # "none"
          /\ stLog.args[i].Name = ""

\* Every argument got one buffer of n slots, each slot set once, and the buffers
\* are attached by position i (from 1) in argument order.
BoundByPosition(n) ==
    /\ stLog.err \in {"nil", "execute"}
    /\ stLog.allocs = Len(stLog.args)
    /\ stLog.sets = n * Len(stLog.args)
    /\ \A i \in DOMAIN stLog.args :
          /\ st.data.arr[i] = NewData(n, n)
          /\ nvars[st.vars.arr[i]].n = n
    /\ stLog.binds = [i \in DOMAIN stLog.args |->
                         [by |-> "pos", key |-> i, var |-> st.vars.arr[i]]]

\* C12: with the flag unset and all slice arguments of one length n in
\* 1..maxArraySize, bindVars gives every argument one buffer of n slots, calls the
\* setter once per slot with the element of that index, and attaches buffer i at
\* position i + 1 (counted from 0); without slice arguments every buffer has one
\* slot and the setter is called once.
C12_BatchShape ==
    CleanBatchBind =>
        /\ \A n \in 1..MaxSmallLen : SliceLens(stLog.args) = {n} => BoundByPosition(n)
        /\ SliceLens(stLog.args) = {maxArraySize} => BoundByPosition(maxArraySize)
        /\ SliceLens(stLog.args) = {} => BoundByPosition(1)

\* C13: a native call that fails inside ExecContext or QueryContext (bind,
\* execute, the row-count read, opening the cursor) makes the operation return an
\* error: an operation that returned no error met no native failure.
C13_NativeFailureReturned ==
    (stLog.op \in {"Exec", "Query"} /\ stLog.err = "nil") => stLog.fault.at = "none"

\* C14: with the PlSQLArrays flag set, bindVars never fails with a shape or a
\* size-limit error whatever the slice lengths are, every buffer it allocates has
\* one slot, and the execution is a single execute, never executeMany.
C14_FlagDisablesBatch ==
    (stLog.bound /\ stLog.flag) =>
        /\ stLog.err \notin {"shape", "size"}
        /\ \A i \in 1..st.vars.len :
              st.vars.arr[i] # NilVar => nvars[st.vars.arr[i]].n = 1
        /\ stLog.exec # "executeMany"

\* C15: reading the reader that rows.Next wraps around a fetched locator never
\* returns an error other than io.EOF and never panics, as long as no native read
\* fails with a code other than 1403, and once io.EOF was returned the bytes
\* received are exactly the locator's content.
C15_ReaderDrains ==
    (lobLog.op = "read" /\ lobLog.err # "readBytes") =>
        /\ lobLog.err \in {"nil", "EOF"}
        /\ lobLog.eofSeen => out = lob.content

\* The last operation ran bindVars and the size and shape checks passed.
ChecksPassed == stLog.bound /\ stLog.err \notin {"size", "shape"}

\* Batch mode is active (executeMany with the recorded length) exactly when the
\* flag is unset and the recorded length is positive.
BatchIffPositive ==
    stLog.exec # "none" =>
        ((stLog.exec = "executeMany" /\ stLog.iters = st.arrLen)
            <=> (~stLog.flag /\ st.arrLen > 0))

\* C16 as stated: after bindVars the batch length recorded on the statement is the
\* minimum slice length, or 1 when no slice-valued argument was found, and batch
\* mode is active exactly when the flag is unset and that length is positive.
C16_ArrLenMinOrOne ==
    ChecksPassed =>
        /\ st.arrLen = (IF SliceLens(stLog.args) = {} THEN 1
                        ELSE MinOf(SliceLens(stLog.args)))
        /\ BatchIffPositive

\* C16: after a bindVars that passed the size and shape checks the batch length
\* recorded on the statement is the minimum slice length, or -1 when no
\* slice-valued argument was found, and batch mode (executeMany with that length)
\* is active exactly when the flag is unset and that length is positive.
C16_ArrLenMin ==
    ChecksPassed =>
        /\ st.arrLen = (IF SliceLens(stLog.args) = {} THEN -1
                        ELSE MinOf(SliceLens(stLog.args)))
        /\ BatchIffPositive

\* C16 witness: a bind without slice arguments succeeded and was executed.
C16_Witness ==
    /\ ChecksPassed
    /\ stLog.args # <<>>
    /\ SliceLens(stLog.args) = {}
    /\ st.arrLen = -1
    /\ stLog.exec = "execute"
    /\ stLog.err = "nil"

\* C17: a bind set whose slice arguments all have length 0, flag unset, is treated
\* as scalar: bindVars succeeds with 1-slot buffers, and ExecContext issues a
\* single execute rather than executeMany.
C17_EmptySlicesScalar ==
    (CleanBatchBind /\ UniformBind(0)) =>
        /\ stLog.err \in {"nil", "execute"}
        /\ \A i \in DOMAIN stLog.args : nvars[st.vars.arr[i]].n = 1
        /\ stLog.exec = "execute"

\* The value v is one its own setter stores when it is bound unwrapped.
Supported(v) ==
    /\ Dispatch(v.t) # "none"
    /\ SetValue(Dispatch(v.t), v, "ok") = "ok"

\* The last operation bound, without a native failure in bindVars, only supported
\* non-slice values, at least one of them inside an output-parameter wrapper.
OutBind ==
    /\ stLog.bound
    /\ stLog.fault.at \notin BindFaults
    /\ \A i \in DOMAIN stLog.args :
          /\ Supported(Unwrapped(stLog.args[i].Value))
          /\ stLog.args[i].Value.t \notin SliceTypes
    /\ \E i \in DOMAIN stLog.args : stLog.args[i].Value.wrap # "none"

\* C18: an output-parameter wrapper (sql.Out) is unwrapped to its destination
\* value, one pointer dereferenced, the native types are chosen from the unwrapped
\* value and the setter stores that value, so binding a wrapper around a supported
\* value succeeds exactly as binding the value itself: one buffer per argument,
\* its slot set.
C18_OutBindsAsValue ==
    OutBind =>
        /\ stLog.err \in {"nil", "execute"}
        /\ stLog.allocs = Len(stLog.args)
        /\ stLog.sets = Len(stLog.args)
        /\ \A i \in DOMAIN stLog.args : st.data.arr[i] = NewData(1, 1)

\* Some argument of the last operation carries a name.
AnyNamed == \E i \in DOMAIN stLog.args : stLog.args[i].Name # ""

\* The decimal strings of the ordinals 1..10.
Decimal == <<"1", "2", "3", "4", "5", "6", "7", "8", "9", "10">>

\* C19: bindVars attaches the whole argument set under one naming discipline: by
\* name if any argument has a non-empty name, an argument with an empty name
\* under the decimal string of its 1-based ordinal, and otherwise by 1-based
\* position in argument order; buffer k is the one attached for argument k, and
\* no execution attaches some buffers by name and others by position.
C19_OneNamingDiscipline ==
    \A k \in DOMAIN stLog.binds :
        /\ stLog.binds[k].var = st.vars.arr[k]
        /\ IF AnyNamed
           THEN /\ stLog.binds[k].by = "name"
                /\ stLog.binds[k].key =
                      (IF stLog.args[k].Name = "" THEN Decimal[stLog.args[k].Ordinal]
                       ELSE stLog.args[k].Name)
           ELSE /\ stLog.binds[k].by = "pos"
                /\ stLog.binds[k].key = k

\* C19 witness: a named argument followed by an unnamed one, both attached by
\* name, the second under "2".
C19_Witness ==
    /\ stLog.err = "nil"
    /\ Len(stLog.binds) = 2
    /\ stLog.args[1].Name = "a"
    /\ stLog.args[2].Name = ""
    /\ stLog.binds[1].by = "name"
    /\ stLog.binds[2].by = "name"
    /\ stLog.binds[2].key = "2"

\* C20: every execution the executor issues, through ExecContext and through
\* QueryContext, single or batched, requests commit-on-success exactly when the
\* connection has no open transaction (inTransaction is false).
C20_CommitIffNoTransaction ==
    stLog.exec # "none" => (stLog.commit <=> ~st.inTransaction)

\* The step is a rows.Next call on cursor c.
IsNextOn(c) == c \in DOMAIN cursors /\ stLog'.op = "Next" /\ stLog'.cur = c

\* C21: a rows.Next call issues exactly one native fetch when no buffered row
\* remains and the cursor is not exhausted, and none when a buffered row remains or
\* the cursor is exhausted; a fetch that yields zero rows marks the cursor
\* exhausted; a Next that returns a row consumes one buffered row, and the number
\* of buffered rows never exceeds the fetch array size.
C21_FetchDiscipline ==
    [][\A c \in 1..MaxCursors :
          IsNextOn(c) =>
              /\ stLog'.fetch <=> (cursors[c].fetched = 0 /\ ~cursors[c].finished)
              /\ (stLog'.fetch /\ stLog'.err = "EOF") => cursors'[c].finished
              /\ (stLog'.res = "row" /\ ~stLog'.fetch) =>
                    /\ cursors'[c].fetched = cursors[c].fetched - 1
                    /\ cursors'[c].bufferRowIndex = cursors[c].bufferRowIndex + 1
              /\ cursors'[c].fetched <= fetchRowCount]_allVars

\* C22: when the native resource-open or the native write fails inside
\* dpiLobWriter.Write, the writer drops its locator reference, the native error is
\* returned with no byte counted and the offset not advanced, and no later Write
\* or Close of the writer issues a native call on the locator (it is opened at
\* most once).
C22_WriterDropsLocator ==
    /\ (lobLog.op = "write" /\ lobLog.err \in {"openResource", "writeBytes"}) =>
          /\ lw.dpiLob = NilLob
          /\ lobLog.n = 0
          /\ lw.offset = fed
    /\ lob.opens <= 1

\* C23: after any sequence of Read calls of a dpiLobReader its offset equals the
\* sum of the byte counts the calls returned, and these bytes are the ones the
\* native layer delivered, the content from its start; a Read whose native call
\* fails reports and adds to the offset only bytes that were read.
C23_OffsetCountsDelivered ==
    (lobLog.op = "read" /\ lobLog.err # "panic") =>
        /\ lr.offset = Len(out)
        /\ Len(out) <= Len(lob.content)
        /\ out = SubSeq(lob.content, 1, Len(out))

\* The byte length of the longest element of v (of v itself when it is no slice).
LongestOf(v) ==
    IF v.t \in {"[][]byte", "[]string"}
    THEN (IF v.lens = <<>> THEN 0 ELSE MaxOf({v.lens[k] : k \in DOMAIN v.lens}))
    ELSE v.n

\* The last operation bound, flag unset and without a native failure in bindVars,
\* either slices of byte sequences or texts only, or one byte sequence or text.
ByteBind ==
    /\ stLog.bound
    /\ ~stLog.flag
    /\ stLog.fault.at \notin BindFaults
    /\ \/ \A i \in DOMAIN stLog.args :
             /\ stLog.args[i].Value.t \in {"[][]byte", "[]string"}
             /\ stLog.args[i].Value.wrap = "none"
       \/ /\ Len(stLog.args) = 1
          /\ stLog.args[1].Value.t \in {"[]byte", "string"}
          /\ stLog.args[1].Value.wrap = "none"

\* C24: in a batch of byte sequences or texts of which some are empty the buffer
\* capacity comes from the longest element (its byte length, four times its
\* length for text), and binding succeeds for every slot, the empty ones
\* included; a single empty byte sequence or text binds without failure too.
C24_EmptyBytesBind ==
    ByteBind =>
        /\ stLog.err \in {"nil", "execute"}
        /\ stLog.allocs = Len(stLog.args)
        /\ \A i \in DOMAIN stLog.args :
              /\ stLog.bufSizes[i] =
                    (IF stLog.args[i].Value.t \in {"string", "[]string"}
                     THEN 4 * LongestOf(stLog.args[i].Value)
                     ELSE LongestOf(stLog.args[i].Value))
              /\ st.data.arr[i].set = st.data.arr[i].n

\* The last operation ran the bind loop.
BindRan == stLog.bound /\ stLog.err \notin {"size", "shape"}

\* Argument i of the last operation was refused by the type switch.
DispatchErrorAt(i) == stLog.err = "dispatch" /\ stLog.errArg = i

\* C25: a signed integer of any width, and a slice of such, is bound as
\* NUMBER/INT64, an unsigned integer of any width, and a slice of such, as
\* NUMBER/UINT64, and none of them gives a dispatch error; a dispatch error names
\* the 1-based index of the argument and its type.
C25_IntegerDispatch ==
    BindRan =>
        \A i \in DOMAIN stLog.args :
            LET t == Unwrap(stLog.args[i].Value).t
                e == IF t \in SliceTypes THEN ElemType(t) ELSE t
            IN  /\ (t \in IntTypes \cup IntSliceTypes) => ~DispatchErrorAt(i)
                /\ (t \in IntTypes \cup IntSliceTypes /\ i <= Len(stLog.natTypes)) =>
                      stLog.natTypes[i] = (IF e \in SignedTypes THEN "INT64" ELSE "UINT64")
                /\ DispatchErrorAt(i) => stLog.errType = t

\* The native call of the watched call c has returned.
NativeReturned(c) ==
    IF c \in DOMAIN calls
    THEN calls[c].wpc # "none" /\ calls[c].cpc \in {"returned", "done"}
    ELSE FALSE

\* The watcher of call c has terminated.
WatcherExited(c) == IF c \in DOMAIN calls THEN calls[c].wpc = "exit" ELSE FALSE

\* The send of call c on done can proceed, and its watcher asked for at most
\* one break.
SendFreeOneBreak(c) ==
    IF c \in DOMAIN calls /\ calls[c].wpc # "none"
    THEN /\ (calls[c].cpc = "returned" => calls[c].done < DoneCap)
         /\ calls[c].breaks <= 1
    ELSE TRUE

\* Every watched call whose native call has returned has a terminated watcher.
\* A native call that has returned stays returned and a watcher that has
\* terminated stays terminated, so that this holding again and again means that
\* the watcher of each such call eventually terminates.
WatchersSettled == \A c \in 1..MaxCalls : NativeReturned(c) => WatcherExited(c)

\* C28: for every ExecContext, QueryContext and Ping call that passed the initial
\* context check, once the native call has returned the watcher eventually
\* terminates, with or without cancellation; the caller's send on done never
\* blocks, also when the watcher left through the cancellation branch; and the
\* watcher requests the native break at most once per call.
C28_WatcherTerminates ==
    /\ [](\A c \in 1..MaxCalls : SendFreeOneBreak(c))
    /\ []<>WatchersSettled

\* A call whose watcher left through the cancellation branch, with one break,
\* and whose caller has sent its completion all the same.
C28_Witness ==
    \E c \in DOMAIN calls :
        /\ calls[c].wpc = "exit"
        /\ calls[c].breaks = 1
        /\ calls[c].cpc = "done"
        /\ calls[c].done = 1

\* C30: conn.Ping with a context that is not cancelled returns nil exactly when
\* the native ping succeeds, and the native error exactly when it fails.
C30_PingResult ==
    \A c \in DOMAIN calls :
        (calls[c].op = "Ping" /\ calls[c].cpc = "done" /\ ~calls[c].ctxDone) =>
            /\ calls[c].ret = "nil" <=> calls[c].nativeOk
            /\ calls[c].ret = "err" <=> ~calls[c].nativeOk

\* C27: no column buffer of a cursor is referenced after it was released: after
\* rows.Close, or after the owning statement's Close, a rows.Next call issues no
\* native fetch on the released handle and reads no slot of a released buffer.
C27_NoUseAfterRelease ==
    (stLog.op = "Next") =>
        /\ (cursors[stLog.cur].closes > 0 \/ ~st.dpiStmt) => ~stLog.fetch
        /\ \A i \in DOMAIN stLog.slotReads :
              stLog.slotReads[i] # NilVar => nvars[stLog.slotReads[i]].releases = 0

\* Cursor c was returned to the caller with its column buffers defined on the
\* statement's handle, and the caller has not closed it.
OpenCursor(c) ==
    /\ cursors[c].returned
    /\ cursors[c].closes = 0
    /\ cursors[c].vars # <<>>

\* C26: a statement has at most one live cursor at a time: over any sequence of
\* QueryContext, rows.Next and rows.Close on one statement there are never two
\* open cursors whose column buffers are defined on the statement's handle.
C26_OneLiveCursor ==
    \A c, d \in DOMAIN cursors : (OpenCursor(c) /\ OpenCursor(d)) => c = d

\* The last operation bound in batch mode: the flag unset and a shortest slice
\* of positive length, which is the batch length.
BatchActive ==
    /\ stLog.bound
    /\ stLog.err \notin {"size", "shape"}
    /\ ~stLog.flag
    /\ stLog.min > 0

\* C29: whenever batch mode is active with batch length n, every argument of the
\* bind set is a slice, other than a byte sequence, of at least n elements, and
\* every per-slot setter call reads an existing element j < n of its argument:
\* no setter call indexes a non-slice value or past the argument's length.
C29_BatchIndexing ==
    BatchActive =>
        \A i \in DOMAIN stLog.args :
            (i <= stLog.allocs) =>
                /\ i \in SliceArgs(stLog.args)
                /\ stLog.args[i].Value.n >= stLog.min
                /\ \A j \in 0..(stLog.min - 1) : IndexValue(stLog.args[i].Value, j).t # "panic"

====
